---- MODULE Spec2Model ----
(***************************************************************************)
(* Views Vanilla JavaScript Slideshow (vvjs): the slideshow runtime of one *)
(* widget root.  The model follows the JavaScript modules                  *)
(*   SlideshowCore         (js/slideshow-core.js)                          *)
(*   SlideshowTransitions  (second half of js/vvjs-opacity.js)             *)
(*   SlideshowNavigation, SlideshowAccessibility, SlideshowVisibility,     *)
(*   SlideshowEvents and the VVJSSlideshow orchestrator (vvjs-main.js).    *)
(* Every JavaScript method is an operator from state record to state       *)
(* record, so that the synchronous nesting of dispatchEvent() and its      *)
(* listeners is kept; every browser event, timer callback or public call  *)
(* is one action that applies the whole handler.                          *)
(***************************************************************************)
EXTENDS Integers, Sequences, FiniteSets, TLC

\* ---------------------------------------------------------------- bounds
MaxSlides == 2
CountCap == 2
\* the longest slide list of the index walks
WalkSlides == 5

\* ------------------------------------------------------ program constants
DefaultSlideTime == 5000
DefaultTransitionDuration == 600
CompletionBuffer == 100
DefaultDragThreshold == 40

VARIABLES
  core,         \* SlideshowCore fields
  transitions,  \* SlideshowTransitions fields and the closures of its jobs
  visibility,   \* SlideshowVisibility fields
  events,       \* SlideshowEvents fields
  browser,      \* timer table, listener table and document state of the page
  dom,          \* the widget root: data attributes, classes, slides
  accessibility,\* SlideshowAccessibility fields
  orch,         \* VVJSSlideshow fields and what it stored on the root
  progress,     \* SlideshowProgress fields
  obs           \* what an observer of the root has seen (history)

vars ==
  <<core, transitions, visibility, events, browser, dom, accessibility, orch,
    progress, obs>>

TransitionKinds ==
  {"instant", "crossfade-classic", "crossfade-staged", "crossfade-dynamic"}

ModuleOrder ==
  <<"core", "transitions", "navigation", "accessibility", "progress",
    "visibility", "events">>

\* A data attribute holding a number is <<>> when absent and <<n>> otherwise.
StartIndexAttrs == {<<>>} \cup {<<n>> : n \in (0 - 1)..(MaxSlides + 1)}
TimeAttrs == {<<>>, <<0>>}

\* parseInt(attr, 10) || fallback : NaN and 0 are both falsy.
parseIntOr(attr, fallback) ==
  IF attr = <<>> THEN fallback
  ELSE IF attr[1] = 0 THEN fallback ELSE attr[1]

\* The number NaN, where an index can hold it: a reserved integer that no
\* index of the model reaches.  Arithmetic with NaN gives NaN, every
\* comparison with NaN is false, and x % 0 is NaN.
NaN == 0 - 999

jsPlus(a, b) == IF a = NaN \/ b = NaN THEN NaN ELSE a + b

jsMod(a, b) == IF a = NaN \/ b = NaN \/ b = 0 THEN NaN ELSE a % b

jsLess(a, b) == a # NaN /\ b # NaN /\ a < b

mathMax(a, b) == IF a >= b THEN a ELSE b
mathMin(a, b) == IF a <= b THEN a ELSE b

SetMax(S) == IF S = {} THEN 0 ELSE CHOOSE m \in S : \A x \in S : x <= m

\* setInterval() returns a handle that no live timer has (here the least).
setIntervalId(live) ==
  CHOOSE m \in 1..(Cardinality(live) + 1) :
    m \notin live /\ \A k \in 1..(m - 1) : k \in live

\* The combined state the methods work on.
Cur ==
  [core |-> core, transitions |-> transitions, visibility |-> visibility,
   events |-> events, browser |-> browser, dom |-> dom,
   accessibility |-> accessibility, orch |-> orch, progress |-> progress,
   obs |-> obs]

\* ------------------------------------------------------------ observation
\* One notification as an observer of the root sees it: its type, its
\* payload (numbers a, b; flag for a notification whose detail is a boolean),
\* and what the observer reads from the instance while it handles the
\* notification; domUntouched: the slides are still as they were when the
\* running handler began.
Notification(s, type, a, b, job, flag) ==
  [type |-> type, a |-> a, b |-> b, job |-> job, flag |-> flag,
   slideIndex |-> s.core.slideIndex,
   currentSlideIndex |-> s.core.currentSlideIndex,
   isPaused |-> s.core.isPaused,
   armed |-> s.core.autoSlideIntervalId # 0,
   sinceChanged |-> s.obs.sinceChanged,
   sinceComplete |-> s.obs.sinceComplete,
   domUntouched |-> s.dom.slides = s.obs.before.slides]

\* container.dispatchEvent(new CustomEvent(type, ...)) as far as the record of
\* the observer goes; the listeners of the modules are applied by the callers.
noteNotification(s, n) ==
  LET type == n.type IN
  [s EXCEPT
     !.obs.emitted = Append(@, n),
     !.obs.sinceChanged =
        IF type = "vvjs:slideChanging" THEN mathMin(@ + 1, CountCap)
        ELSE IF type = "vvjs:slideChanged" THEN 0 ELSE @,
     !.obs.sinceComplete =
        IF type = "vvjs:slideChanging" THEN mathMin(@ + 1, CountCap)
        ELSE IF type = "vvjs:transitionComplete" THEN 0 ELSE @]

\* -------------------------------------------------------- SlideshowProgress
\* progressIntervalId is 0 for null and 1 for the handle of the live timer.
immediateStop(s) ==
  IF s.progress.progressIntervalId # 0
  THEN [s EXCEPT !.progress.progressIntervalId = 0,
                 !.progress.isActive = FALSE]
  ELSE s

startProgress(s) ==
  IF ~s.progress.showProgress \/ s.core.slideTime <= 0 THEN s
  ELSE [immediateStop(s) EXCEPT !.progress.isActive = TRUE,
                                !.progress.progressIntervalId = 1]

\* the listeners that SlideshowProgress.bindEvents registers on the root, for
\* a notification of the given type (flag: the detail of vvjs:pauseToggled);
\* they are registered only on a root that shows the progress bar
progressListener(s, type, flag) ==
  IF "progress" \notin s.orch.wired THEN s
  ELSE IF type = "vvjs:slideChanging"
    THEN IF ~s.core.isPaused THEN startProgress(immediateStop(s))
         ELSE immediateStop(s)
  ELSE IF type = "vvjs:pauseToggled"
    THEN IF flag THEN immediateStop(s) ELSE startProgress(s)
  ELSE IF type = "vvjs:autoSlideStopped" THEN immediateStop(s)
  ELSE IF type = "vvjs:autoSlideStarted"
    THEN IF ~s.core.isPaused THEN startProgress(s) ELSE s
  ELSE IF type = "vvjs:mouseEnter" THEN immediateStop(s)
  ELSE s

\* dispatch of a notification that only SlideshowProgress listens to, if any
\* module does
dispatchEvent(s, type, a, b, job) ==
  LET toProgress(s1) == IF type = "vvjs:slideChanging" THEN s1
                        ELSE progressListener(s1, type, FALSE)
  IN toProgress(noteNotification(s, Notification(s, type, a, b, job, FALSE)))

\* dispatchEvent of a notification whose detail is one boolean
dispatchFlagEvent(s, type, flag) ==
  progressListener(noteNotification(s, Notification(s, type, 0, 0, 0, flag)),
                   type, flag)

\* A listener that is registered on the root after those of SlideshowCore
\* and SlideshowTransitions (a later module, or page code after attach) is
\* called when the listeners before it have returned, whatever they
\* dispatched meanwhile; obs.late keeps the types in the order it gets them.
deliverLate(s, type) == [s EXCEPT !.obs.late = Append(@, type)]

\* dispatch of vvjs:slideChanged.  Its listeners (dots and counter of
\* SlideshowNavigation, announcer of SlideshowAccessibility, fragment sync)
\* write only their own presentation and call nothing back.
dispatchSlideChanged(s) ==
  deliverLate(dispatchEvent(s, "vvjs:slideChanged", s.core.slideIndex,
                            s.core.totalSlides, 0),
              "vvjs:slideChanged")

\* --------------------------------------------- two generations of modules
\* After reinitialize() the root carries the listeners of two generations of
\* module objects: those that destroy() left behind (orch.stale: their core,
\* their transitions and the listeners they registered) and the new ones.
\* The methods work on s.core and s.transitions; swap exchanges the
\* generation they work on.
swap(s) ==
  [s EXCEPT !.core = s.orch.stale.core,
            !.transitions = s.orch.stale.transitions,
            !.orch.wired = s.orch.stale.wired,
            !.orch.stale = [core |-> s.core, transitions |-> s.transitions,
                            wired |-> s.orch.wired],
            !.orch.staleLoaded = ~@]

\* the state with the stale (stale = TRUE) or the new generation at work
load(s, stale) == IF s.orch.staleLoaded = stale THEN s ELSE swap(s)

\* ------------------------------------------------------------ SlideshowCore
updateAccessibilityAttributes(s) ==
  LET instant == s.dom.transition = "instant"
      s1 == [s EXCEPT !.dom.slides =
               [i \in DOMAIN s.dom.slides |->
                  [s.dom.slides[i] EXCEPT
                     !.display = IF instant
                                 THEN (IF i = s.core.slideIndex THEN "block"
                                       ELSE "none")
                                 ELSE @,
                     !.active = (i = s.core.slideIndex)]]]
  IN dispatchSlideChanged(s1)

\* the listener SlideshowCore.init() registers for vvjs:transitionComplete
\* (adjustHeight writes the height of the slide list only)
coreOnTransitionComplete(s) == updateAccessibilityAttributes(s)

\* stopAutoSlide that dispatches vvjs:autoSlideStopped whether or not a timer
\* was armed
stopAutoSlide_alwaysEmits(s) ==
  dispatchEvent(
    [s EXCEPT !.browser.intervals = @ \ {s.core.autoSlideIntervalId},
              !.core.autoSlideIntervalId = 0],
    "vvjs:autoSlideStopped", 0, 0, 0)

stopAutoSlide(s) ==
  IF s.core.autoSlideIntervalId # 0
  THEN dispatchEvent(
         [s EXCEPT !.browser.intervals = @ \ {s.core.autoSlideIntervalId},
                   !.core.autoSlideIntervalId = 0],
         "vvjs:autoSlideStopped", 0, 0, 0)
  ELSE s

\* startAutoSlide without its stopAutoSlide()
startAutoSlide_noStop(s) ==
  IF s.core.slideTime > 0 /\ ~s.core.isPaused /\ s.core.isVisible
  THEN LET id == setIntervalId(s.browser.intervals) IN
       dispatchEvent(
         [s EXCEPT !.browser.intervals = @ \cup {id},
                   !.core.autoSlideIntervalId = id],
         "vvjs:autoSlideStarted", 0, 0, 0)
  ELSE s

startAutoSlide(s) ==
  LET afterStop(s1) ==
        IF s1.core.slideTime > 0 /\ ~s1.core.isPaused /\ s1.core.isVisible
        THEN LET id == setIntervalId(s1.browser.intervals) IN
             dispatchEvent(
               [s1 EXCEPT !.browser.intervals = @ \cup {id},
                          !.core.autoSlideIntervalId = id],
               "vvjs:autoSlideStarted", 0, 0, 0)
        ELSE s1
  IN afterStop(stopAutoSlide(s))

\* togglePause that never starts the timer again
togglePause_neverStarts(s) ==
  LET p == ~s.core.isPaused
      s1 == [s EXCEPT !.core.isPaused = p,
                      !.dom.classes = IF p THEN @ \cup {"vvjs-is-paused"}
                                      ELSE @ \ {"vvjs-is-paused"}]
      s2 == dispatchFlagEvent(s1, "vvjs:pauseToggled", p)
  IN stopAutoSlide(s2)

\* togglePause that dispatches vvjs:pauseToggled after it has stopped or
\* started the timer
togglePause_emitsLast(s) ==
  LET p == ~s.core.isPaused
      s1 == [s EXCEPT !.core.isPaused = p,
                      !.dom.classes = IF p THEN @ \cup {"vvjs-is-paused"}
                                      ELSE @ \ {"vvjs-is-paused"}]
      s2 == IF p THEN stopAutoSlide(s1) ELSE startAutoSlide(s1)
  IN dispatchFlagEvent(s2, "vvjs:pauseToggled", p)

togglePause(s) ==
  LET p == ~s.core.isPaused
      s1 == [s EXCEPT !.core.isPaused = p,
                      !.dom.classes = IF p THEN @ \cup {"vvjs-is-paused"}
                                      ELSE @ \ {"vvjs-is-paused"}]
      afterDispatch(s2) ==
        IF s2.core.isPaused THEN stopAutoSlide(s2) ELSE startAutoSlide(s2)
  IN afterDispatch(dispatchFlagEvent(s1, "vvjs:pauseToggled", p))

setVisibility(s, visible) ==
  LET s1 == [s EXCEPT !.core.isVisible = visible] IN
  IF visible /\ ~s1.core.isPaused THEN startAutoSlide(s1)
  ELSE stopAutoSlide(s1)

coreDestroy(s) == stopAutoSlide(s)

\* ----------------------------------------------------- SlideshowTransitions
\* cleanupActiveTransition without its clearTimeout
cleanupActiveTransition_keepsTimeout(s) ==
  LET at == s.transitions.activeTransition IN
  IF at # 0
  THEN [s EXCEPT !.browser.listeners = @ \ {at},
                 !.transitions.activeTransition = 0]
  ELSE s

cleanupActiveTransition(s) ==
  LET at == s.transitions.activeTransition IN
  IF at # 0
  THEN [s EXCEPT !.browser.timeouts = @ \ {at},
                 !.browser.listeners = @ \ {at},
                 !.transitions.activeTransition = 0]
  ELSE s

\* dispatch of vvjs:transitionComplete and the listener that the init() of
\* each core has registered; with two generations on the root the listeners
\* run in the order of registration, the stale one first
dispatchTransitionComplete(s, job) ==
  LET listener(x) == IF "core" \in x.orch.wired
                     THEN coreOnTransitionComplete(x) ELSE x
      toListeners(s1) ==
        deliverLate(
          IF s1.orch.stale = <<>> THEN listener(s1)
          ELSE load(listener(load(listener(load(s1, TRUE)), FALSE)),
                    s1.orch.staleLoaded),
          "vvjs:transitionComplete")
  IN toListeners(dispatchEvent(s, "vvjs:transitionComplete",
                               s.core.slideIndex, 0, job))

\* onTransitionComplete that leaves the job armed
onTransitionComplete_noCleanup(s, job) ==
  dispatchTransitionComplete(s, job)

onTransitionComplete(s, job) ==
  dispatchTransitionComplete(cleanupActiveTransition(s), job)

\* The closure `cleanup` that setupTransitionCompletion creates for job j:
\* transitionEnded is the closure's flag, element the closure's element.
cleanup(s, j) ==
  LET s0 == [s EXCEPT !.obs.firedJob = j] IN
  IF j \in s0.transitions.ended THEN s0
  ELSE
    LET s1 == [s0 EXCEPT !.transitions.ended = @ \cup {j}]
        at == s1.transitions.activeTransition
        s2 == IF at # 0
                 /\ s1.transitions.jobs[at].element
                      = s1.transitions.jobs[j].element
              THEN [s1 EXCEPT !.browser.listeners = @ \ {at}]
              ELSE s1
    IN onTransitionComplete(s2, j)

\* The closures of the jobs that a timer or a listener of the page still
\* references; the others are garbage.
liveJobs(s) ==
  s.browser.timeouts \cup s.browser.listeners
    \cup (IF s.transitions.activeTransition # 0
          THEN {s.transitions.activeTransition} ELSE {})

\* the name the model gives to the closure a new job creates
newJobId(s) == SetMax(liveJobs(s)) + 1

\* totalDuration of setupTransitionCompletion (staged: duration * 1.3)
totalDuration(s, variant) ==
  IF variant = "staged"
  THEN (s.transitions.transitionDuration * 13) \div 10
  ELSE s.transitions.transitionDuration

\* setupTransitionCompletion without the fallback setTimeout
setupTransitionCompletion_noTimeout(s, element, variant, j) ==
  [s EXCEPT
     !.transitions.jobs =
        (j :> [element |-> element,
               delay |-> totalDuration(s, variant) + CompletionBuffer]) @@ @,
     !.transitions.activeTransition = j,
     !.browser.listeners = @ \cup {j}]

setupTransitionCompletion(s, element, variant, j) ==
  [s EXCEPT
     !.transitions.jobs =
        (j :> [element |-> element,
               delay |-> totalDuration(s, variant) + CompletionBuffer]) @@ @,
     !.transitions.activeTransition = j,
     !.browser.timeouts = @ \cup {j},
     !.browser.listeners = @ \cup {j}]

applyCrossfadeTransition(s, outgoing, incoming, variant, j) ==
  LET out(sl) == [sl EXCEPT !.zIndex = "1", !.vvjsActive = FALSE,
                            !.vvjsPrevious = TRUE, !.opacity = "0"]
      inc(sl) == [sl EXCEPT !.zIndex = "2", !.vvjsPrevious = FALSE,
                            !.vvjsActive = TRUE, !.opacity = "1"]
      d1 == IF outgoing # 0
            THEN [s.dom.slides EXCEPT ![outgoing] = out(@)]
            ELSE s.dom.slides
      d2 == [d1 EXCEPT ![incoming] = inc(@)]
  IN setupTransitionCompletion([s EXCEPT !.dom.slides = d2],
                               incoming, variant, j)

transitionInstant(s) == onTransitionComplete(s, 0)

performTransition(s, fromIndex, toIndex) ==
  LET s1 == cleanupActiveTransition(s)
      j == newJobId(s1)
      outgoing == IF fromIndex \in DOMAIN s1.dom.slides THEN fromIndex ELSE 0
      incoming == IF toIndex \in DOMAIN s1.dom.slides THEN toIndex ELSE 0
      type == s1.transitions.transitionType
  IN IF incoming = 0 THEN s1
     ELSE IF type = "instant" THEN transitionInstant(s1)
     ELSE IF type = "crossfade-classic"
       THEN applyCrossfadeTransition(s1, outgoing, incoming, "classic", j)
     ELSE IF type = "crossfade-staged"
       THEN applyCrossfadeTransition(s1, outgoing, incoming, "staged", j)
     ELSE IF type = "crossfade-dynamic"
       THEN applyCrossfadeTransition(s1, outgoing, incoming, "dynamic", j)
     ELSE transitionInstant(s1)

\* handleReducedMotion that marks the root but keeps the transition type
handleReducedMotion_keepsType(s) ==
  [s EXCEPT
     !.transitions.originalTransitionType =
        IF @ = "" THEN s.transitions.transitionType ELSE @,
     !.dom.transition = "instant",
     !.dom.classes = @ \cup {"reduced-motion"}]

handleReducedMotion(s) ==
  [s EXCEPT
     !.transitions.originalTransitionType =
        IF @ = "" THEN s.transitions.transitionType ELSE @,
     !.transitions.transitionType = "instant",
     !.dom.transition = "instant",
     !.dom.classes = @ \cup {"reduced-motion"}]

transitionsDestroy(s) ==
  LET s1 == cleanupActiveTransition(s) IN
  [s1 EXCEPT !.dom.slides =
     [i \in DOMAIN s1.dom.slides |->
        [s1.dom.slides[i] EXCEPT !.vvjsActive = FALSE, !.vvjsPrevious = FALSE,
                                 !.opacity = "", !.zIndex = ""]]]

\* dispatch of vvjs:slideChanging and the listener that the bindEvents() of
\* each SlideshowTransitions has registered
dispatchSlideChanging(s, fromIndex, toIndex) ==
  LET listener(x) == IF "transitions" \in x.orch.wired
                     THEN performTransition(x, fromIndex, toIndex) ELSE x
      toListeners(s1) ==
        deliverLate(
          progressListener(
            IF s1.orch.stale = <<>> THEN listener(s1)
            ELSE load(listener(load(listener(load(s1, TRUE)), FALSE)),
                      s1.orch.staleLoaded),
            "vvjs:slideChanging", FALSE),
          "vvjs:slideChanging")
  IN toListeners(dispatchEvent(s, "vvjs:slideChanging", fromIndex, toIndex,
                               0))

\* ------------------------------------------- SlideshowCore, navigation part
\* updateSlideVisibility that moves currentSlideIndex before it dispatches
updateSlideVisibility_tracksFirst(s) ==
  LET previousIndex == s.core.currentSlideIndex
      newIndex == s.core.slideIndex
      s1 == dispatchSlideChanging(
              [s EXCEPT !.core.currentSlideIndex = newIndex],
              previousIndex, newIndex)
  IN IF s1.dom.transition = "instant"
     THEN updateAccessibilityAttributes(s1)
     ELSE s1

\* updateSlideVisibility that updates the attributes whatever the kind is
updateSlideVisibility_alwaysUpdates(s) ==
  LET previousIndex == s.core.currentSlideIndex
      newIndex == s.core.slideIndex
      s1 == dispatchSlideChanging(s, previousIndex, newIndex)
      s2 == [s1 EXCEPT !.core.currentSlideIndex = newIndex]
  IN updateAccessibilityAttributes(s2)

updateSlideVisibility(s) ==
  LET previousIndex == s.core.currentSlideIndex
      newIndex == s.core.slideIndex
      afterDispatch(s1) ==
        LET s2 == [s1 EXCEPT !.core.currentSlideIndex = newIndex]
        IN IF s2.dom.transition = "instant"
           THEN updateAccessibilityAttributes(s2)
           ELSE s2
  IN afterDispatch(dispatchSlideChanging(s, previousIndex, newIndex))

\* nextSlide that increments without wrapping
nextSlide_noWrap(s) ==
  IF s.core.loopingEnabled
  THEN updateSlideVisibility(
         [s EXCEPT !.core.slideIndex = @ + 1])
  ELSE IF s.core.slideIndex < s.core.totalSlides
       THEN updateSlideVisibility(
              [s EXCEPT !.core.slideIndex = @ + 1])
       ELSE stopAutoSlide(s)

\* nextSlide that returns at the last slide without stopping the timer
nextSlide_keepsTimer(s) ==
  IF s.core.loopingEnabled
  THEN updateSlideVisibility(
         [s EXCEPT !.core.slideIndex = (@ % s.core.totalSlides) + 1])
  ELSE IF s.core.slideIndex < s.core.totalSlides
       THEN updateSlideVisibility(
              [s EXCEPT !.core.slideIndex = @ + 1])
       ELSE s

nextSlide(s) ==
  IF s.core.loopingEnabled
  THEN updateSlideVisibility(
         [s EXCEPT !.core.slideIndex =
            jsPlus(jsMod(@, s.core.totalSlides), 1)])
  ELSE IF jsLess(s.core.slideIndex, s.core.totalSlides)
       THEN updateSlideVisibility(
              [s EXCEPT !.core.slideIndex = @ + 1])
       ELSE stopAutoSlide(s)

\* prevSlide that stays on the first slide instead of wrapping to the last
prevSlide_noWrap(s) ==
  IF s.core.loopingEnabled
  THEN updateSlideVisibility(
         [s EXCEPT !.core.slideIndex =
            IF @ = 1 THEN 1 ELSE @ - 1])
  ELSE IF s.core.slideIndex > 1
       THEN updateSlideVisibility(
              [s EXCEPT !.core.slideIndex = @ - 1])
       ELSE s

prevSlide(s) ==
  IF s.core.loopingEnabled
  THEN updateSlideVisibility(
         [s EXCEPT !.core.slideIndex =
            IF @ = 1 THEN s.core.totalSlides ELSE jsPlus(@, 0 - 1)])
  ELSE IF jsLess(1, s.core.slideIndex)
       THEN updateSlideVisibility(
              [s EXCEPT !.core.slideIndex = @ - 1])
       ELSE s

\* goToSlide that refreshes the slides without taking the index
goToSlide_keepsIndex(s, index) ==
  IF index >= 1 /\ index <= s.core.totalSlides
  THEN updateSlideVisibility(s)
  ELSE s

\* goToSlide that takes an index out of range to the nearest slide
goToSlide_clamps(s, index) ==
  updateSlideVisibility(
    [s EXCEPT !.core.slideIndex =
                mathMax(1, mathMin(index, s.core.totalSlides))])

goToSlide(s, index) ==
  IF index >= 1 /\ index <= s.core.totalSlides
  THEN updateSlideVisibility(
         [s EXCEPT !.core.slideIndex = index])
  ELSE s

\* The argument of a call that expects a number: <<n>> is the number n and
\* <<>> is NaN or a missing argument (undefined), which every comparison
\* takes as NaN.
Arguments == {<<>>} \cup {<<n>> : n \in 0..(MaxSlides + 1)}

\* SlideshowCore.goToSlide(index) for an argument: index >= 1 is false for
\* NaN
goToSlideArgument(s, index) ==
  IF index = <<>> THEN s ELSE goToSlide(s, index[1])

\* ------------------------------------------------- module constructors
\* SlideshowCore.constructor and init(); no other module listens yet.
coreConstructor(s, dataset) ==
  LET total == Cardinality(DOMAIN s.dom.slides)
      startIndex == parseIntOr(dataset.startIndex, 1)
      idx == mathMax(1, mathMin(startIndex, total))
      s1 == [s EXCEPT
               !.core = [slideTime |-> parseIntOr(dataset.time, DefaultSlideTime),
                         totalSlides |-> total,
                         loopingEnabled |-> dataset.enableLooping # "false",
                         slideIndex |-> idx,
                         currentSlideIndex |-> idx,
                         isPaused |-> dataset.static = "true",
                         isVisible |-> TRUE,
                         autoSlideIntervalId |-> 0]]
      updatePlayPauseButton(s2) ==
        [s2 EXCEPT !.dom.classes = IF s2.core.isPaused
                                   THEN @ \cup {"vvjs-is-paused"}
                                   ELSE @ \ {"vvjs-is-paused"}]
  IN updatePlayPauseButton(updateSlideVisibility(s1))

setupSlides(s) ==
  IF s.transitions.transitionType = "instant" THEN s
  ELSE [s EXCEPT !.dom.slides =
          [i \in DOMAIN s.dom.slides |->
             [s.dom.slides[i] EXCEPT
                !.opacity = IF i = 1 THEN "1" ELSE "0",
                !.zIndex = IF i = 1 THEN "2" ELSE "1",
                !.vvjsActive = (i = 1),
                !.vvjsPrevious = (i # 1)]]]

\* SlideshowTransitions.constructor, init() and bindEvents()
transitionsConstructor(s, reducedMotion) ==
  LET s1 == [s EXCEPT
               !.transitions.transitionType = s.dom.transition,
               !.transitions.transitionDuration = DefaultTransitionDuration,
               !.transitions.activeTransition = 0]
      s2 == setupSlides(s1)
  IN IF ~s.dom.slideshow \/ DOMAIN s.dom.slides = {} THEN s1
     ELSE IF reducedMotion THEN handleReducedMotion(s2) ELSE s2

\* SlideshowAccessibility.applyReducedMotion
applyReducedMotion(s, reducedMotion) ==
  IF reducedMotion
  THEN LET s1 == stopAutoSlide([s EXCEPT !.core.isPaused = TRUE]) IN
       [s1 EXCEPT !.dom.classes = @ \cup {"reduced-motion"}]
  ELSE s

\* SlideshowAccessibility.constructor and init()
accessibilityConstructor(s, dataset, reducedMotion) ==
  applyReducedMotion(
    [s EXCEPT !.accessibility.keyboardEnabled =
                 dataset.enableKeyboard # "false"],
    reducedMotion)

\* visibilityRatio >= this.visibilityThreshold for the ratio num / den of
\* two integers and the threshold 0.5, as floating point division takes
\* it: x / 0 is Infinity for x > 0, -Infinity for x < 0 and NaN for x = 0,
\* and NaN >= 0.5 is false
ratioReachesThreshold(num, den) ==
  IF den = 0 THEN num > 0
  ELSE IF den > 0 THEN 2 * num >= den
  ELSE 2 * num <= den

\* SlideshowVisibility.checkElementVisibility for the bounding rectangle
\* rect of the root (top, left, height, width) in a window of the size
\* viewport
checkElementVisibility(rect, viewport) ==
  LET bottom == rect.top + rect.height
      right == rect.left + rect.width
      visibleHeight == mathMin(bottom, viewport.height) - mathMax(rect.top, 0)
      visibleWidth == mathMin(right, viewport.width) - mathMax(rect.left, 0)
  IN ratioReachesThreshold(visibleHeight * visibleWidth,
                           rect.height * rect.width)

\* SlideshowProgress.constructor and init(); the markup has the progress bar
\* exactly when data-show-slide-progress is "true"
progressConstructor(s, dataset) ==
  [s EXCEPT !.progress =
     [showProgress |-> IF "showSlideProgress" \in DOMAIN dataset
                       THEN dataset.showSlideProgress = "true" ELSE FALSE,
      progressIntervalId |-> 0, isActive |-> FALSE]]

\* SlideshowVisibility.handleInitialVisibility; inView is the result of
\* checkElementVisibility() for the geometry of the moment.
handleInitialVisibility(s, inView) ==
  setVisibility([s EXCEPT !.visibility.isVisible = inView,
                          !.visibility.previousVisibility = inView], inView)

\* SlideshowVisibility.constructor and init()
visibilityConstructor(s, inView) ==
  handleInitialVisibility(
    [s EXCEPT !.visibility = [isVisible |-> TRUE,
                              previousVisibility |-> FALSE,
                              observing |-> TRUE]], inView)

\* SlideshowEvents.constructor; a coordinate that is null is <<>>
eventsConstructor(s, dataset) ==
  [s EXCEPT !.events = [isMouseOver |-> FALSE,
                        pauseOnHover |-> dataset.pauseOnHover # "false",
                        touchStartX |-> <<>>, touchStartY |-> <<>>,
                        touchEndX |-> <<>>, touchEndY |-> <<>>,
                        dragThreshold |-> DefaultDragThreshold,
                        swipeEnabled |->
                          IF "enableSwipe" \in DOMAIN dataset
                          THEN dataset.enableSwipe # "false" ELSE TRUE]]

\* env: the data attributes of the root (dataset; deeplink: deep linking is
\* enabled and has an identifier) and the page as it is at attach time
\* (reducedMotion: the media query matches; inView: the result of
\* checkElementVisibility())
constructModule(s, name, env) ==
  LET constructed(s1) ==
        LET bound == /\ name = "transitions" => DOMAIN s.dom.slides # {}
                     /\ name = "progress" => s1.progress.showProgress
        IN [s1 EXCEPT !.orch.modules = @ \cup {name},
                      !.orch.wired = IF bound THEN @ \cup {name} ELSE @]
  IN constructed(
       IF name = "core" THEN coreConstructor(s, env.dataset)
       ELSE IF name = "transitions"
         THEN transitionsConstructor(s, env.reducedMotion)
       ELSE IF name = "accessibility"
         THEN accessibilityConstructor(s, env.dataset, env.reducedMotion)
       ELSE IF name = "progress" THEN progressConstructor(s, env.dataset)
       ELSE IF name = "visibility" THEN visibilityConstructor(s, env.inView)
       ELSE IF name = "events" THEN eventsConstructor(s, env.dataset)
       ELSE s)

\* ---------------------------------------------------------- URL fragments
\* window.location.hash without its '#', as a sequence of tokens: "X" is the
\* whole data-deeplink-id of this root, "Y" another identifier, "a" a letter,
\* "-" the dash, and a digit is a digit.  <<>> is the page without fragment.
Digits == <<"0", "1", "2", "3", "4", "5", "6", "7", "8", "9">>

IsDigit(c) == \E d \in DOMAIN Digits : Digits[d] = c

digitValue(c) == (CHOOSE d \in DOMAIN Digits : Digits[d] = c) - 1

\* hash.startsWith('#' + deeplinkId + '-')
startsWithDeeplinkId(hash) ==
  Len(hash) >= 2 /\ hash[1] = "X" /\ hash[2] = "-"

\* hash.split('-').pop(): what follows the last dash
lastSegment(hash) ==
  LET dashes == {i \in DOMAIN hash : hash[i] = "-"}
      from == SetMax(dashes) + 1
  IN IF dashes = {} THEN <<"#">> \o hash
     ELSE SubSeq(hash, from, Len(hash))

RECURSIVE digitsValue(_, _)
\* the number that the first k tokens of str, all digits, are the numeral of
digitsValue(str, k) ==
  IF k = 0 THEN 0
  ELSE 10 * digitsValue(str, k - 1) + digitValue(str[k])

\* parseInt(str, 10): the number of the longest run of digits str begins
\* with, whatever follows; NaN when str begins with no digit
parseInt(str) ==
  LET run == {k \in 0..Len(str) : \A i \in 1..k : IsDigit(str[i])}
      k == SetMax(run)
  IN IF k = 0 THEN NaN ELSE digitsValue(str, k)

\* ------------------------------------------------------------ VVJSSlideshow
\* VVJSSlideshow.initializeDeepLinking: with deep linking enabled and an
\* identifier set it goes to the slide that the fragment of the page names
\* at load time (env.hash; a page without fragment where env has none) and
\* registers the hashchange listener of the window, once per root.
initializeDeepLinking(s, env) ==
  IF ~env.deeplink THEN s
  ELSE LET hash == IF "hash" \in DOMAIN env THEN env.hash ELSE <<>>
           slideNumber == parseInt(lastSegment(hash))
           s1 == IF /\ startsWithDeeplinkId(hash)
                    /\ slideNumber >= 1
                    /\ slideNumber <= s.core.totalSlides
                 THEN goToSlide(s, slideNumber) ELSE s
       IN [s1 EXCEPT !.orch.vvjsHashChangeHandler = TRUE]

handleInitializationError_noMarker(s) ==
  IF "core" \in s.orch.modules THEN updateSlideVisibility(s) ELSE s

handleInitializationError(s) ==
  LET s1 == [s EXCEPT !.dom.classes = @ \cup {"vvjs-error"}] IN
  IF "core" \in s1.orch.modules THEN updateSlideVisibility(s1) ELSE s1

RECURSIVE constructFrom(_, _, _, _)
\* the try block of VVJSSlideshow.init(): the modules in their fixed order;
\* failAt names the position of the constructor that throws (0: none)
constructFrom(s, k, failAt, env) ==
  IF k = failAt THEN handleInitializationError(s)
  ELSE IF k > Len(ModuleOrder)
  THEN LET s1 == startAutoSlide(
                   initializeDeepLinking([s EXCEPT !.orch.vvjsModules = TRUE],
                                         env))
           s2 == [s1 EXCEPT !.dom.classes = @ \cup {"vvjs-initialized"}]
       IN dispatchEvent(s2, "vvjs:initialized", 0, 0, 0)
  ELSE constructFrom(constructModule(s, ModuleOrder[k], env),
                     k + 1, failAt, env)

\* VVJSSlideshow.init(): on a root without slide list the SlideshowCore
\* constructor, the first, throws on this.slideshow.querySelectorAll
orchInit(s, failAt, env) ==
  constructFrom(s, 1, IF s.dom.slideshow THEN failAt ELSE 1, env)

\* the modules whose class defines destroy(); SlideshowNavigation and
\* SlideshowAccessibility define none
HasDestroy == {"core", "transitions", "progress", "visibility", "events"}

\* module.destroy() of the module called name
moduleDestroy(s, name) ==
  IF name = "visibility" THEN [s EXCEPT !.visibility.observing = FALSE]
  ELSE IF name = "transitions" THEN transitionsDestroy(s)
  ELSE IF name = "core" THEN coreDestroy(s)
  ELSE IF name = "progress" THEN immediateStop(s)
  ELSE s

RECURSIVE destroyModules_stopsAtThrow(_, _, _)
\* the loop without its try and catch: the first throw ends it
destroyModules_stopsAtThrow(s, k, throwing) ==
  IF k = 0 THEN s
  ELSE LET name == ModuleOrder[k] IN
       IF name \notin s.orch.modules \/ name \notin HasDestroy
       THEN destroyModules_stopsAtThrow(s, k - 1, throwing)
       ELSE LET s1 == [s EXCEPT !.obs.torn = Append(@, name)] IN
            IF name \in throwing THEN s1
            ELSE destroyModules_stopsAtThrow(moduleDestroy(s1, name),
                                             k - 1, throwing)

RECURSIVE destroyModules(_, _, _)
\* Object.keys(this.modules).reverse().forEach(...): module.destroy() of
\* each module that has one, inside try and catch.  throwing names the
\* modules whose destroy() throws, taken as throwing on entry; obs.torn
\* keeps the modules whose destroy() was called, in the order of the calls.
destroyModules(s, k, throwing) ==
  IF k = 0 THEN s
  ELSE LET name == ModuleOrder[k] IN
       IF name \notin s.orch.modules \/ name \notin HasDestroy
       THEN destroyModules(s, k - 1, throwing)
       ELSE LET s1 == [s EXCEPT !.obs.torn = Append(@, name)] IN
            destroyModules(IF name \in throwing THEN s1
                           ELSE moduleDestroy(s1, name),
                           k - 1, throwing)

orchDestroy(s, throwing) ==
  LET s1 == destroyModules(s, Len(ModuleOrder), throwing)
      s2 == [s1 EXCEPT !.orch.modules = {},
                       !.dom.classes = @ \ {"vvjs-initialized", "vvjs-error"}]
  IN dispatchEvent(s2, "vvjs:destroyed", 0, 0, 0)

\* VVJSSlideshow.getState(): null (here <<>>) without a core module
getState ==
  IF "core" \notin orch.modules THEN <<>>
  ELSE [slideIndex |-> core.slideIndex, totalSlides |-> core.totalSlides,
        isPaused |-> core.isPaused, isVisible |-> core.isVisible,
        slideTime |-> core.slideTime, modules |-> orch.modules]

\* ------------------------------------------------------ event handlers
\* SlideshowVisibility.handleVisibilityChange
handleVisibilityChange(s, isVisible) ==
  dispatchFlagEvent(
    setVisibility([s EXCEPT !.visibility.isVisible = isVisible], isVisible),
    "vvjs:visibilityChanged", isVisible)

\* SlideshowVisibility.handlePageVisibilityChange
handlePageVisibilityChange(s, inView) ==
  IF s.browser.hidden THEN stopAutoSlide(s)
  ELSE IF inView /\ ~s.core.isPaused THEN startAutoSlide(s)
  ELSE s

\* SlideshowVisibility.handleResize
handleResize(s, inView) == handleVisibilityChange(s, inView)

\* SlideshowEvents.handleMouseEnter
handleMouseEnter(s) ==
  IF s.events.pauseOnHover
  THEN LET s1 == [s EXCEPT !.events.isMouseOver = TRUE]
           s2 == IF s1.orch.vvjsModules THEN immediateStop(s1) ELSE s1
       IN dispatchEvent(stopAutoSlide(s2), "vvjs:mouseEnter", 0, 0, 0)
  ELSE s

\* SlideshowEvents.handleMouseLeave
handleMouseLeave(s) ==
  IF s.events.pauseOnHover
  THEN dispatchEvent(startAutoSlide([s EXCEPT !.events.isMouseOver = FALSE]),
                     "vvjs:mouseLeave", 0, 0, 0)
  ELSE s

\* the number a coordinate counts as in a subtraction: null counts as 0
toNumber(v) == IF v = <<>> THEN 0 ELSE v[1]

mathAbs(x) == IF x < 0 THEN 0 - x ELSE x

\* SlideshowEvents.resetTouchState
resetTouchState(s) ==
  [s EXCEPT !.events.touchStartX = <<>>, !.events.touchStartY = <<>>,
            !.events.touchEndX = <<>>, !.events.touchEndY = <<>>]

\* processSwipeGesture with the horizontal test >= in place of >
processSwipeGesture_atThreshold(s) ==
  LET deltaX == toNumber(s.events.touchEndX) - toNumber(s.events.touchStartX)
      deltaY == mathAbs(toNumber(s.events.touchEndY)
                          - toNumber(s.events.touchStartY))
  IN IF /\ mathAbs(deltaX) >= s.events.dragThreshold
        /\ 2 * deltaY < 3 * s.events.dragThreshold
     THEN LET s1 == IF deltaX > 0 THEN prevSlide(s) ELSE nextSlide(s) IN
          dispatchEvent(startAutoSlide(s1), "vvjs:swipe",
                        IF deltaX > 0 THEN 1 ELSE 0 - 1, mathAbs(deltaX), 0)
     ELSE s

\* SlideshowEvents.processSwipeGesture.  deltaY < dragThreshold * 1.5 is
\* taken on integers as 2 * deltaY < 3 * dragThreshold; the vvjs:swipe
\* notification carries the direction (1: right, -1: left) and the distance.
processSwipeGesture(s) ==
  LET deltaX == toNumber(s.events.touchEndX) - toNumber(s.events.touchStartX)
      deltaY == mathAbs(toNumber(s.events.touchEndY)
                          - toNumber(s.events.touchStartY))
  IN IF /\ mathAbs(deltaX) > s.events.dragThreshold
        /\ 2 * deltaY < 3 * s.events.dragThreshold
     THEN LET s1 == IF deltaX > 0 THEN prevSlide(s) ELSE nextSlide(s) IN
          dispatchEvent(startAutoSlide(s1), "vvjs:swipe",
                        IF deltaX > 0 THEN 1 ELSE 0 - 1, mathAbs(deltaX), 0)
     ELSE s

\* SlideshowEvents.handlePointerDown
handlePointerDown(s, pointerType, x, y) ==
  IF ~s.events.swipeEnabled \/ pointerType = "mouse" THEN s
  ELSE [s EXCEPT !.events.touchStartX = <<x>>, !.events.touchStartY = <<y>>]

\* SlideshowEvents.handlePointerUp
handlePointerUp(s, pointerType, x, y) ==
  IF ~s.events.swipeEnabled \/ pointerType = "mouse" THEN s
  ELSE resetTouchState(
         processSwipeGesture(
           [s EXCEPT !.events.touchEndX = <<x>>, !.events.touchEndY = <<y>>]))

Keys == {"ArrowRight", "ArrowLeft", " ", "Home", "End"}

\* the core methods a key runs
keyOp(key) ==
  IF key = "ArrowRight" THEN "nextSlide+start"
  ELSE IF key = "ArrowLeft" THEN "prevSlide+start"
  ELSE IF key = " " THEN "togglePause"
  ELSE "goToSlide+start"

\* SlideshowAccessibility.isSlideshowFocused; focusInside: the root contains
\* document.activeElement; onScreen: the rectangle of the root overlaps the
\* viewport vertically
isSlideshowFocused(focusInside, onScreen) == focusInside \/ onScreen

\* the switch of the keydown listener of
\* SlideshowAccessibility.setupKeyboardNavigation
handleKeyDown(s, key) ==
  IF key = "ArrowRight" THEN startAutoSlide(nextSlide(s))
  ELSE IF key = "ArrowLeft" THEN startAutoSlide(prevSlide(s))
  ELSE IF key = " " THEN togglePause(s)
  ELSE IF key = "Home" THEN startAutoSlide(goToSlide(s, 1))
  ELSE IF key = "End" THEN startAutoSlide(goToSlide(s, s.core.totalSlides))
  ELSE s

\* The keydown listener that setupKeyboardNavigation registers on the
\* document; inEditable: the target of the event is inside an input, a
\* textarea or a contenteditable element.
onDocumentKeyDown(s, key, inEditable, focusInside, onScreen) ==
  IF inEditable THEN s
  ELSE IF ~isSlideshowFocused(focusInside, onScreen) THEN s
  ELSE handleKeyDown(s, key)

\* hashChangeHandler of initializeDeepLinking; hashHasPrefix: the fragment
\* starts with '#' + deeplinkId + '-'; slideNumber: parseInt of what follows
\* the last '-' of the fragment.  Without a core module the handler throws
\* when it reads this.modules.core.totalSlides.
hashChangeHandler(s, hashHasPrefix, slideNumber) ==
  IF ~hashHasPrefix THEN s
  ELSE IF "core" \notin s.orch.modules THEN s
  ELSE IF slideNumber >= 1 /\ slideNumber <= s.core.totalSlides
    THEN startAutoSlide(goToSlide(s, slideNumber))
  ELSE s

\* hashChangeHandler for the fragment the page has changed to
onHashChange(s, hash) ==
  hashChangeHandler(s, startsWithDeeplinkId(hash),
                    parseInt(lastSegment(hash)))

\* ------------------------------------------------------------------ Init
BlankSlide ==
  [display |-> "", active |-> FALSE, opacity |-> "", zIndex |-> "",
   vvjsActive |-> FALSE, vvjsPrevious |-> FALSE]

FailPoints == {0} \cup 2..Len(ModuleOrder)

Datasets ==
  [startIndex : StartIndexAttrs, time : TimeAttrs,
   static : {"true", "false"}, enableLooping : {"true", "false"},
   pauseOnHover : {"true", "false"}, enableKeyboard : {"true", "false"}]

\* the data attributes of a root whose markup sets none of them specially
DefaultDataset ==
  [startIndex |-> <<>>, time |-> <<>>, static |-> "false",
   enableLooping |-> "true", pauseOnHover |-> "true",
   enableKeyboard |-> "true"]

\* The number of settings in which a root and the page it is attached on
\* differ from the default root on a page without reduced motion, in view,
\* whose constructors all succeed.  Instant and classic crossfade are both
\* taken as default transitions.
Deviations(kind, dataset, failAt, reducedMotion, inView) ==
  LET fields == {f \in DOMAIN dataset : dataset[f] # DefaultDataset[f]} IN
  Cardinality(fields)
    + (IF kind \in {"crossfade-staged", "crossfade-dynamic"} THEN 1 ELSE 0)
    + (IF failAt # 0 THEN 1 ELSE 0)
    + (IF reducedMotion THEN 1 ELSE 0)
    + (IF inView THEN 0 ELSE 1)

\* The root with n slides and data-transition kind as the markup delivers it,
\* before Drupal.behaviors attaches.
InitRootWith(n, kind, slideshow) ==
  /\ core = [slideTime |-> 0, totalSlides |-> 0, loopingEnabled |-> FALSE,
             slideIndex |-> 0, currentSlideIndex |-> 0, isPaused |-> FALSE,
             isVisible |-> FALSE, autoSlideIntervalId |-> 0]
  /\ transitions = [transitionType |-> "", originalTransitionType |-> "",
                    transitionDuration |-> 0, activeTransition |-> 0,
                    ended |-> {}, jobs |-> <<>>]
  /\ visibility = [isVisible |-> FALSE, previousVisibility |-> FALSE,
                   observing |-> FALSE]
  /\ events = [isMouseOver |-> FALSE, pauseOnHover |-> FALSE,
               touchStartX |-> <<>>, touchStartY |-> <<>>,
               touchEndX |-> <<>>, touchEndY |-> <<>>,
               dragThreshold |-> 0, swipeEnabled |-> FALSE]
  /\ accessibility = [keyboardEnabled |-> FALSE]
  /\ progress = [showProgress |-> FALSE, progressIntervalId |-> 0,
                 isActive |-> FALSE]
  /\ browser = [intervals |-> {}, timeouts |-> {}, listeners |-> {},
                hidden |-> FALSE]
  /\ dom = [transition |-> kind, time |-> <<>>, classes |-> {},
            slideshow |-> slideshow,
            slides |-> [i \in 1..n |-> BlankSlide]]
  /\ orch = [phase |-> "new", modules |-> {}, wired |-> {},
             vvjsModules |-> FALSE, vvjsSlideshow |-> FALSE,
             vvjsHashChangeHandler |-> FALSE,
             stale |-> <<>>, staleLoaded |-> FALSE]
  /\ obs = [handled |-> FALSE, lastOp |-> "", input |-> <<>>, flag |-> <<>>,
            identifier |-> <<>>, returned |-> "",
            emitted |-> <<>>, firedJob |-> 0, before |-> <<>>,
            sinceChanged |-> 0, sinceComplete |-> 0,
            calls |-> <<>>, trail |-> <<>>, torn |-> <<>>,
            fragment |-> <<>>, late |-> <<>>]

\* the root whose markup has the slide list
InitRoot(n, kind) == InitRootWith(n, kind, TRUE)

Init == \E n \in 1..MaxSlides, kind \in TransitionKinds : InitRoot(n, kind)

\* --------------------------------------------------------------- actions
\* the closures no timer or listener references any more are collected
collectGarbage(s) ==
  LET live == liveJobs(s) IN
  [s EXCEPT !.transitions.ended = @ \cap live,
            !.transitions.jobs = [j \in live |-> @[j]]]

\* The state a handler starts from.  The observer keeps, for the handler that
\* runs, the state it started from (before), what the page handed to the
\* handler (input for a number, flag for a boolean, where an action notes
\* it; identifier for the identifier of a public call), the notifications it
\* dispatched (emitted), the job whose completion callback it ran (firedJob)
\* and how a public call ended (returned).
Begin ==
  [Cur EXCEPT !.obs.emitted = <<>>, !.obs.firedJob = 0, !.obs.input = <<>>,
              !.obs.flag = <<>>, !.obs.identifier = <<>>,
              !.obs.returned = "", !.obs.torn = <<>>,
              !.obs.fragment = <<>>, !.obs.late = <<>>,
              !.obs.before = [core |-> core, slides |-> dom.slides,
                              activeTransition |-> transitions.activeTransition,
                              hidden |-> browser.hidden,
                              modules |-> orch.modules,
                              events |-> events]]

\* the handler named op ran from Begin to its end and left t
Step(op, t) ==
  /\ ~obs.handled
  /\ core' = t.core
  /\ transitions' = collectGarbage(t).transitions
  /\ visibility' = t.visibility
  /\ events' = t.events
  /\ browser' = t.browser
  /\ dom' = t.dom
  /\ accessibility' = t.accessibility
  /\ orch' = t.orch
  /\ progress' = t.progress
  /\ obs' = [t.obs EXCEPT !.handled = TRUE, !.lastOp = op]

\* The handler has returned to the event loop: the observer forgets what it
\* noted about that handler; the counts since the last notifications stay.
HandlerReturns ==
  /\ obs.handled
  /\ obs' = [obs EXCEPT !.handled = FALSE, !.lastOp = "", !.emitted = <<>>,
                        !.firedJob = 0, !.before = <<>>, !.input = <<>>,
                        !.torn = <<>>, !.fragment = <<>>, !.late = <<>>,
                        !.flag = <<>>, !.identifier = <<>>,
                        !.returned = ""]
  /\ UNCHANGED <<core, transitions, visibility, events, browser, dom,
                 accessibility, orch, progress>>

\* Drupal.behaviors.VVJSlideshow.attach: new VVJSSlideshow(container).  The
\* markup delivers the data attributes; data-time stays readable on the root.
Attach ==
  /\ orch.phase = "new"
  /\ \E dataset \in Datasets, failAt \in FailPoints,
        reducedMotion \in BOOLEAN, inView \in BOOLEAN :
       /\ Deviations(dom.transition, dataset, failAt, reducedMotion, inView)
            <= 1
       /\ LET env == [dataset |-> dataset, deeplink |-> FALSE,
                      reducedMotion |-> reducedMotion, inView |-> inView]
              t == orchInit([Begin EXCEPT !.dom.time = dataset.time,
                                          !.obs.input = <<failAt>>],
                            failAt, env)
          IN Step("attach",
                  [t EXCEPT !.orch.phase = "attached",
                            !.orch.vvjsSlideshow = TRUE])

\* SlideshowNavigation.bindEvents: arrows and dots
ClickNext ==
  /\ "navigation" \in orch.wired
  /\ Step("nextSlide+start", startAutoSlide(nextSlide(Begin)))

ClickPrev ==
  /\ "navigation" \in orch.wired
  /\ Step("prevSlide+start", startAutoSlide(prevSlide(Begin)))

ClickDot ==
  /\ "navigation" \in orch.wired
  /\ \E n \in DOMAIN dom.slides :
       Step("goToSlide+start",
            startAutoSlide(
              goToSlide([Begin EXCEPT !.obs.input = <<n>>], n)))

ClickPlayPause ==
  /\ "navigation" \in orch.wired
  /\ Step("togglePause", togglePause(Begin))

KeyDown ==
  /\ "accessibility" \in orch.wired /\ accessibility.keyboardEnabled
  /\ \E key \in Keys : Step(keyOp(key), handleKeyDown(Begin, key))

MouseEnter ==
  /\ "events" \in orch.wired /\ ~events.isMouseOver
  /\ Step("mouseenter", handleMouseEnter(Begin))

MouseLeave ==
  /\ "events" \in orch.wired
  /\ events.pauseOnHover => events.isMouseOver
  /\ Step("mouseleave", handleMouseLeave(Begin))

\* the IntersectionObserver callback of setupIntersectionObserver
IntersectionChange ==
  /\ "visibility" \in orch.wired /\ visibility.observing
  /\ \E isIntersecting \in BOOLEAN :
       Step("intersection", handleVisibilityChange(Begin, isIntersecting))

\* document visibilitychange: the tab is hidden or shown again
PageVisibilityChange ==
  /\ "visibility" \in orch.wired
  /\ \E inView \in BOOLEAN :
       Step("visibilitychange",
            handlePageVisibilityChange(
              [Begin EXCEPT !.browser.hidden = ~@,
                            !.obs.flag = <<inView>>], inView))

\* The resize listener of the window, debounced: the step is the run of the
\* debounced callback, some time after the last resize event.
Resize ==
  /\ "visibility" \in orch.wired
  /\ \E inView \in BOOLEAN : Step("resize", handleResize(Begin, inView))

\* the change listener of the reduced-motion media query
ReducedMotionChange ==
  /\ "transitions" \in orch.wired
  /\ \E matches \in BOOLEAN :
       LET b == [Begin EXCEPT !.obs.flag = <<matches>>] IN
       Step("reducedMotion", IF matches THEN handleReducedMotion(b) ELSE b)

\* the setInterval callback of startAutoSlide
AutoSlideTick ==
  \E id \in browser.intervals : Step("nextSlide", nextSlide(Begin))

\* the fallback setTimeout of setupTransitionCompletion fires for job j
FallbackTimeout ==
  \E j \in browser.timeouts :
    Step("transition.timeout",
         cleanup([Begin EXCEPT !.browser.timeouts = @ \ {j}], j))

\* a transitionend event reaches the listener of job j
TransitionEnd ==
  \E j \in browser.listeners, relevant \in BOOLEAN :
    Step("transitionend", IF relevant THEN cleanup(Begin, j) ELSE Begin)

\* calls on the core obtained from getModule('core')
CoreNextSlide ==
  /\ "core" \in orch.modules
  /\ Step("nextSlide", nextSlide(Begin))

CorePrevSlide ==
  /\ "core" \in orch.modules
  /\ Step("prevSlide", prevSlide(Begin))

CoreGoToSlide ==
  /\ "core" \in orch.modules
  /\ \E index \in Arguments :
       Step("goToSlide",
            goToSlideArgument([Begin EXCEPT !.obs.input = index], index))

CoreTogglePause ==
  /\ "core" \in orch.modules
  /\ Step("togglePause", togglePause(Begin))

\* VVJSSlideshow.destroy() when the destroy() of the module at position k of
\* ModuleOrder throws (0: none does); the observer notes k as input
Teardown(k) ==
  LET throwing == IF k = 0 THEN {} ELSE {ModuleOrder[k]}
      s == IF k = 0 THEN Begin ELSE [Begin EXCEPT !.obs.input = <<k>>]
  IN Step("destroy", [orchDestroy(s, throwing)
                        EXCEPT !.orch.phase = "destroyed"])

\* VVJSSlideshow.destroy() on an instance whose modules all tear down
Destroy ==
  /\ orch.phase = "attached"
  /\ Teardown(0)

Next ==
  \/ Attach
  \/ ClickNext \/ ClickPrev \/ ClickDot \/ ClickPlayPause
  \/ KeyDown
  \/ MouseEnter \/ MouseLeave
  \/ IntersectionChange \/ PageVisibilityChange
  \/ Resize
  \/ ReducedMotionChange
  \/ AutoSlideTick \/ FallbackTimeout \/ TransitionEnd
  \/ CoreNextSlide \/ CorePrevSlide \/ CoreGoToSlide \/ CoreTogglePause
  \/ Destroy
  \/ HandlerReturns

Spec == Init /\ [][Next]_vars

\* ------------------------------------------------- the page keeps running
\* A specification for what eventually happens to a transition job.  The
\* root carries the default data attributes and receives the events whose
\* handlers reach SlideshowTransitions: navigation by click and by autoplay
\* tick, the fallback timeout, transitionend, the change of the reduced-motion
\* preference, and destroy().  The page keeps running: a handler that has
\* started returns, and a timeout that is armed again and again is not
\* postponed for ever by the other events (strong fairness of
\* FallbackTimeout, written with the two state predicates that say when
\* FallbackTimeout is enabled and when it has just been taken).
AttachDefault ==
  /\ orch.phase = "new"
  /\ \E reducedMotion \in BOOLEAN, inView \in BOOLEAN :
       LET env == [dataset |-> DefaultDataset, deeplink |-> FALSE,
                   reducedMotion |-> reducedMotion, inView |-> inView]
           t == orchInit(Begin, 0, env)
       IN Step("attach",
               [t EXCEPT !.orch.phase = "attached",
                         !.orch.vvjsSlideshow = TRUE])

NextRunning ==
  \/ AttachDefault
  \/ ClickNext \/ ClickPrev \/ ClickDot
  \/ ReducedMotionChange
  \/ AutoSlideTick \/ FallbackTimeout \/ TransitionEnd
  \/ Destroy
  \/ HandlerReturns

\* FallbackTimeout is enabled
TimeoutDue == ~obs.handled /\ browser.timeouts # {}

\* FallbackTimeout has just been taken
TimeoutRan == obs.handled /\ obs.lastOp = "transition.timeout"

FairSpec ==
  /\ Init /\ [][NextRunning]_vars
  /\ WF_vars(HandlerReturns)
  /\ []<>TimeoutDue => []<>TimeoutRan

\* VVJSSlideshow.reinitialize(): destroy() and then init() on the same root.
\* destroy() drops the module objects and removes none of their listeners, so
\* they stay behind as the stale generation; init() constructs new objects.
orchReinitialize(s, env) ==
  LET destroyed(s1) ==
        [s1 EXCEPT
           !.orch.stale = [core |-> s1.core,
                           transitions |-> s1.transitions,
                           wired |-> s1.orch.wired],
           !.orch.wired = {},
           !.transitions = [transitionType |-> "",
                            originalTransitionType |-> "",
                            transitionDuration |-> 0,
                            activeTransition |-> 0,
                            ended |-> {}, jobs |-> <<>>]]
  IN orchInit(destroyed(orchDestroy(s, {})), 0, env)

\* --------------------------------------------------------- reinitialize()
\* A specification of reinitialize(): a root with instant transitions and
\* the default data attributes is attached, reinitialized once, and receives
\* clicks on its next arrow and the ticks of the autoplay timers.
InitInstant == \E n \in 1..MaxSlides : InitRoot(n, "instant")

Reinitialize ==
  /\ orch.phase = "attached" /\ orch.stale = <<>>
  /\ \E inView \in BOOLEAN :
       LET env == [dataset |-> DefaultDataset, deeplink |-> FALSE,
                   reducedMotion |-> FALSE, inView |-> inView]
       IN Step("reinitialize", orchReinitialize(Begin, env))

\* a click on the next arrow: the click listener of every generation runs
ClickNextAll ==
  /\ "navigation" \in orch.wired
  /\ LET listener(x) == IF "navigation" \in x.orch.wired
                        THEN startAutoSlide(nextSlide(x)) ELSE x
     IN Step("nextSlide+start",
             IF orch.stale = <<>> THEN listener(Begin)
             ELSE load(listener(load(listener(load(Begin, TRUE)), FALSE)),
                       FALSE))

\* a click on the play/pause button: the click listener of every generation
ClickPlayPauseAll ==
  /\ "navigation" \in orch.wired
  /\ LET listener(x) == IF "navigation" \in x.orch.wired
                        THEN togglePause(x) ELSE x
     IN Step("togglePause",
             IF orch.stale = <<>> THEN listener(Begin)
             ELSE load(listener(load(listener(load(Begin, TRUE)), FALSE)),
                       FALSE))

\* the setInterval callback of the startAutoSlide of either core
AutoSlideTickAny ==
  \E id \in browser.intervals :
    Step("nextSlide",
         IF id = core.autoSlideIntervalId THEN nextSlide(Begin)
         ELSE load(nextSlide(load(Begin, TRUE)), FALSE))

NextReinit ==
  \/ AttachDefault
  \/ Reinitialize
  \/ ClickNextAll \/ ClickPlayPauseAll
  \/ AutoSlideTickAny
  \/ HandlerReturns

ReinitSpec == InitInstant /\ [][NextReinit]_vars

\* ------------------------------------------------ teardowns that throw
\* VVJSSlideshow.destroy() on an instance of which at most one module throws
\* in its destroy()
DestroyThrowing ==
  /\ orch.phase = "attached"
  /\ \E k \in {0} \cup {i \in DOMAIN ModuleOrder :
                         ModuleOrder[i] \in HasDestroy} : Teardown(k)

NextTeardown ==
  \/ Attach
  \/ ClickNext
  \/ ClickPlayPause
  \/ AutoSlideTick
  \/ TransitionEnd
  \/ DestroyThrowing
  \/ HandlerReturns

TeardownSpec == Init /\ [][NextTeardown]_vars

\* ------------------------------------------------------- the public calls
\* An identifier string handed to Drupal.vvjs.*, by what the two lookups of
\* getContainerByIdentifier make of it: cssPrefixed, it starts with '.' or
\* '#'; deeplink, the root whose data-deeplink-id equals it ("this" root or
\* "none"); selector, what document.querySelector(identifier) does: it
\* returns this root, returns an element that is no slideshow root, returns
\* null ("none"), or throws a SyntaxError because the string is no valid
\* selector ("invalid", as '2nd-gallery' or '#').
Identifiers ==
  [cssPrefixed : BOOLEAN, deeplink : {"this", "none"},
   selector : {"this", "element", "none", "invalid"}]

\* the identifier names no slideshow root of the page
MatchesNoInstance(identifier) ==
  /\ identifier.cssPrefixed \/ identifier.deeplink = "none"
  /\ identifier.selector # "this"

\* getContainerByIdentifier: "this" root, an "element", "none", or "throws"
getContainerByIdentifier(identifier) ==
  IF ~identifier.cssPrefixed /\ identifier.deeplink = "this" THEN "this"
  ELSE IF identifier.selector = "invalid" THEN "throws"
  ELSE identifier.selector

\* getCoreModule: the "core" of this root, "null", or "throws"
getCoreModule(s, identifier) ==
  LET container == getContainerByIdentifier(identifier) IN
  IF container = "throws" THEN "throws"
  ELSE IF container # "this" \/ ~s.orch.vvjsSlideshow THEN "null"
  ELSE IF "core" \in s.orch.modules THEN "core" ELSE "null"

returns(s, value) == [s EXCEPT !.obs.returned = value]

\* Drupal.vvjs.goToSlide
apiGoToSlide(s, identifier, slideIndex) ==
  LET c == getCoreModule(s, identifier) IN
  IF c = "throws" THEN returns(s, "throws")
  ELSE IF c = "null" THEN returns(s, "false")
  ELSE IF slideIndex < 1 \/ slideIndex > s.core.totalSlides
    THEN returns(s, "false")
  ELSE returns(startAutoSlide(goToSlide(s, slideIndex)), "true")

\* Drupal.vvjs.goToSlide for an argument: slideIndex < 1 and slideIndex >
\* core.totalSlides are both false for NaN and for a missing argument, so
\* the call goes on to core.goToSlide() and core.startAutoSlide()
apiGoToSlideArgument(s, identifier, slideIndex) ==
  LET c == getCoreModule(s, identifier) IN
  IF slideIndex # <<>> THEN apiGoToSlide(s, identifier, slideIndex[1])
  ELSE IF c = "throws" THEN returns(s, "throws")
  ELSE IF c = "null" THEN returns(s, "false")
  ELSE returns(startAutoSlide(goToSlideArgument(s, slideIndex)), "true")

\* Drupal.vvjs.getCurrentSlide and Drupal.vvjs.getTotalSlides
apiGet(s, identifier) ==
  LET c == getCoreModule(s, identifier) IN
  IF c = "throws" THEN returns(s, "throws")
  ELSE IF c = "null" THEN returns(s, "null")
  ELSE returns(s, "number")

\* Drupal.vvjs.nextSlide
apiNextSlide(s, identifier) ==
  LET c == getCoreModule(s, identifier) IN
  IF c = "throws" THEN returns(s, "throws")
  ELSE IF c = "core" THEN returns(startAutoSlide(nextSlide(s)), "true")
  ELSE returns(s, "false")

\* Drupal.vvjs.prevSlide
apiPrevSlide(s, identifier) ==
  LET c == getCoreModule(s, identifier) IN
  IF c = "throws" THEN returns(s, "throws")
  ELSE IF c = "core" THEN returns(startAutoSlide(prevSlide(s)), "true")
  ELSE returns(s, "false")

\* Drupal.vvjs.pause
apiPause(s, identifier) ==
  LET c == getCoreModule(s, identifier) IN
  IF c = "throws" THEN returns(s, "throws")
  ELSE IF c = "core" /\ ~s.core.isPaused THEN returns(togglePause(s), "true")
  ELSE returns(s, "false")

\* Drupal.vvjs.resume
apiResume(s, identifier) ==
  LET c == getCoreModule(s, identifier) IN
  IF c = "throws" THEN returns(s, "throws")
  ELSE IF c = "core" /\ s.core.isPaused THEN returns(togglePause(s), "true")
  ELSE returns(s, "false")

\* A specification of the page around the root: the root is attached with
\* the default data attributes and deep linking enabled, it is clicked, ticks
\* and is destroyed; page code calls Drupal.vvjs.* with any identifier and
\* any index, between two handlers; and the page holds a second slideshow
\* root, whose keys and fragments reach the listeners that this root has
\* registered on the document and on the window.
PageAttach ==
  /\ orch.phase = "new"
  /\ \E inView \in BOOLEAN :
       LET env == [dataset |-> DefaultDataset, deeplink |-> TRUE,
                   reducedMotion |-> FALSE, inView |-> inView]
           t == orchInit(Begin, 0, env)
       IN Step("attach",
               [t EXCEPT !.orch.phase = "attached",
                         !.orch.vvjsSlideshow = TRUE])

\* A key is pressed while the focus is inside the other root (so not inside
\* this one, and not in an editable element).
KeyDownInOther ==
  /\ "accessibility" \in orch.wired /\ accessibility.keyboardEnabled
  /\ \E key \in Keys, onScreen \in BOOLEAN :
       Step("keydown.other",
            onDocumentKeyDown([Begin EXCEPT !.obs.flag = <<onScreen>>],
                              key, FALSE, FALSE, onScreen))

\* The fragment changes to '#' + identifier of the other root + '-' + n.  It
\* starts with '#' + identifier of this root + '-' exactly if the identifier
\* of the other root does (extends: as 'gallery-wide' extends 'gallery').
HashChangeForOther ==
  /\ orch.vvjsHashChangeHandler
  /\ \E extends \in BOOLEAN, n \in 1..MaxSlides :
       Step("hashchange.other",
            hashChangeHandler([Begin EXCEPT !.obs.flag = <<extends>>,
                                            !.obs.input = <<n>>],
                              extends, n))

Called(identifier) == [Begin EXCEPT !.obs.identifier = identifier]

ApiGoToSlide ==
  /\ ~obs.handled
  /\ \E identifier \in Identifiers, index \in Arguments :
       Step("api.goToSlide",
            apiGoToSlideArgument(
              [Called(identifier) EXCEPT !.obs.input = index],
              identifier, index))

ApiNextSlide ==
  /\ ~obs.handled
  /\ \E identifier \in Identifiers :
       Step("api.nextSlide", apiNextSlide(Called(identifier), identifier))

ApiPrevSlide ==
  /\ ~obs.handled
  /\ \E identifier \in Identifiers :
       Step("api.prevSlide", apiPrevSlide(Called(identifier), identifier))

ApiPause ==
  /\ ~obs.handled
  /\ \E identifier \in Identifiers :
       Step("api.pause", apiPause(Called(identifier), identifier))

ApiResume ==
  /\ ~obs.handled
  /\ \E identifier \in Identifiers :
       Step("api.resume", apiResume(Called(identifier), identifier))

ApiGetCurrentSlide ==
  /\ ~obs.handled
  /\ \E identifier \in Identifiers :
       Step("api.getCurrentSlide", apiGet(Called(identifier), identifier))

ApiGetTotalSlides ==
  /\ ~obs.handled
  /\ \E identifier \in Identifiers :
       Step("api.getTotalSlides", apiGet(Called(identifier), identifier))

ApiOps ==
  {"api.goToSlide", "api.nextSlide", "api.prevSlide", "api.pause",
   "api.resume", "api.getCurrentSlide", "api.getTotalSlides"}

NextPage ==
  \/ PageAttach
  \/ ClickNext \/ ClickPlayPause
  \/ AutoSlideTick
  \/ KeyDownInOther \/ HashChangeForOther
  \/ ApiGoToSlide \/ ApiNextSlide \/ ApiPrevSlide
  \/ ApiPause \/ ApiResume
  \/ ApiGetCurrentSlide \/ ApiGetTotalSlides
  \/ Destroy
  \/ HandlerReturns

PageSpec == Init /\ [][NextPage]_vars

\* ------------------------------------------------------------ index walks
\* A second specification for the index arithmetic of nextSlide and
\* prevSlide: a root of up to WalkSlides slides is attached on a page without
\* reduced motion, in view, and then receives only nextSlide() and
\* prevSlide() calls on its core.  The observer keeps the calls made
\* (obs.calls) and the index read after attach and after each call
\* (obs.trail).
InitWalk ==
  \E n \in 1..WalkSlides, kind \in {"instant", "crossfade-classic"} :
    InitRoot(n, kind)

WalkLen == WalkSlides + 1

WalkAttach ==
  /\ orch.phase = "new"
  /\ \E k \in DOMAIN dom.slides, looping \in {"true", "false"} :
       LET dataset == [DefaultDataset EXCEPT !.startIndex = <<k>>,
                                             !.enableLooping = looping]
           env == [dataset |-> dataset, deeplink |-> FALSE,
                   reducedMotion |-> FALSE, inView |-> TRUE]
           t == orchInit(Begin, 0, env)
       IN Step("attach",
               [t EXCEPT !.orch.phase = "attached",
                         !.orch.vvjsSlideshow = TRUE,
                         !.obs.trail = <<t.core.slideIndex>>])

WalkNext ==
  /\ "core" \in orch.modules
  /\ Len(obs.calls) < WalkLen
  /\ LET t == nextSlide(Begin) IN
     Step("nextSlide",
          [t EXCEPT !.obs.calls = Append(@, "next"),
                    !.obs.trail = Append(@, t.core.slideIndex)])

WalkPrev ==
  /\ "core" \in orch.modules
  /\ Len(obs.calls) < WalkLen
  /\ LET t == prevSlide(Begin) IN
     Step("prevSlide",
          [t EXCEPT !.obs.calls = Append(@, "prev"),
                    !.obs.trail = Append(@, t.core.slideIndex)])

NextWalk == WalkAttach \/ WalkNext \/ WalkPrev \/ HandlerReturns

WalkSpec == InitWalk /\ [][NextWalk]_vars

\* ------------------------------------------------------------- gestures
\* the coordinates a pointer is put down and lifted at
Coords == {0, 5, 40, 60, 65}

PointerTypes == {"touch", "mouse"}

\* a root of the walk with data-enable-swipe set or unset
SwipeAttach ==
  /\ orch.phase = "new"
  /\ \E enableSwipe \in {"true", "false"} :
       LET dataset == [f \in DOMAIN DefaultDataset \cup {"enableSwipe"} |->
                         IF f = "enableSwipe" THEN enableSwipe
                         ELSE DefaultDataset[f]]
           env == [dataset |-> dataset, deeplink |-> FALSE,
                   reducedMotion |-> FALSE, inView |-> TRUE]
           t == orchInit(Begin, 0, env)
       IN Step("attach",
               [t EXCEPT !.orch.phase = "attached",
                         !.orch.vvjsSlideshow = TRUE])

\* pointerdown on the slide list
PointerDown ==
  /\ "events" \in orch.wired
  /\ \E pointerType \in PointerTypes, x \in Coords, y \in Coords :
       Step("pointerdown", handlePointerDown(Begin, pointerType, x, y))

\* pointerup on the slide list; the observer notes the coordinates
PointerUp ==
  /\ "events" \in orch.wired
  /\ \E pointerType \in PointerTypes, x \in Coords, y \in Coords :
       Step(IF pointerType = "mouse" THEN "pointerup.mouse" ELSE "pointerup",
            handlePointerUp([Begin EXCEPT !.obs.input = <<x, y>>],
                            pointerType, x, y))

\* pointercancel on the slide list
PointerCancel ==
  /\ "events" \in orch.wired
  /\ Step("pointercancel", resetTouchState(Begin))

NextSwipe ==
  \/ SwipeAttach
  \/ PointerDown
  \/ PointerUp
  \/ PointerCancel
  \/ HandlerReturns

SwipeSpec == InitWalk /\ [][NextSwipe]_vars

\* ------------------------------------------------------------ updateConfig
\* the configuration objects page code hands to updateConfig(): a record of
\* the properties it sets
Configs ==
  {[slideTime |-> 3000], [loopingEnabled |-> FALSE],
   [isPaused |-> TRUE], [isPaused |-> FALSE], [slideIndex |-> 1]}

\* VVJSSlideshow.updateConfig(config): Object.assign(this.modules.core,
\* config), then vvjs:configChanged
updateConfig(s, config) ==
  IF "core" \in s.orch.modules
  THEN dispatchEvent(
         [s EXCEPT !.core = [f \in DOMAIN s.core |->
                               IF f \in DOMAIN config THEN config[f]
                               ELSE s.core[f]]],
         "vvjs:configChanged", 0, 0, 0)
  ELSE s

\* page code calls updateConfig(config) on the instance stored on the root
UpdateConfig ==
  /\ orch.vvjsSlideshow
  /\ \E config \in Configs : Step("updateConfig", updateConfig(Begin, config))

NextConfig ==
  \/ AttachDefault
  \/ UpdateConfig
  \/ ClickNext
  \/ ClickPlayPause
  \/ AutoSlideTick
  \/ HandlerReturns

ConfigSpec == Init /\ [][NextConfig]_vars

\* ------------------------------------------- roots without their structure
\* a root whose markup has no slide list, or a slide list without slides
InitEmpty ==
  \E kind \in TransitionKinds, slideshow \in BOOLEAN :
    InitRootWith(0, kind, slideshow)

\* attach on a page in view or out of view, with looping enabled or disabled
EmptyAttach ==
  /\ orch.phase = "new"
  /\ \E looping \in {"true", "false"}, inView \in BOOLEAN :
       LET dataset == [DefaultDataset EXCEPT !.enableLooping = looping]
           env == [dataset |-> dataset, deeplink |-> FALSE,
                   reducedMotion |-> FALSE, inView |-> inView]
           t == orchInit(Begin, 0, env)
       IN Step("attach",
               [t EXCEPT !.orch.phase = "attached",
                         !.orch.vvjsSlideshow = TRUE])

\* a click on the previous arrow, as long as the index has not gone further
\* down than CountCap below zero
ClickPrevBounded ==
  /\ core.slideIndex = NaN \/ core.slideIndex > 0 - CountCap
  /\ ClickPrev

NextEmpty ==
  \/ EmptyAttach
  \/ ClickNext
  \/ ClickPrevBounded
  \/ CoreGoToSlide
  \/ AutoSlideTick
  \/ ApiNextSlide
  \/ HandlerReturns

EmptySpec == InitEmpty /\ [][NextEmpty]_vars

\* ----------------------------------------------------------- deep linking
\* A specification of deep linking: a root with deep linking enabled and the
\* identifier X is attached on a page with or without a fragment, then the
\* fragment of the page changes, and the next arrow is clicked.
\* The fragments: one of the prefixes (none, the identifier without dash,
\* the identifier and a dash, an identifier that begins with X and a dash,
\* another identifier) followed by up to two tokens, digits or a letter.
TailTokens == {Digits[k + 1] : k \in 0..(MaxSlides + 1)} \cup {"a"}

Tails ==
  {<<>>} \cup {<<c>> : c \in TailTokens}
    \cup {<<c, d>> : c \in TailTokens, d \in TailTokens}

Prefixes ==
  {<<>>, <<"X">>, <<"X", "-">>, <<"X", "-", "a", "-">>, <<"Y", "-">>}

Fragments == {prefix \o tail : prefix \in Prefixes, tail \in Tails}

InitLink ==
  \E n \in 1..MaxSlides, kind \in {"instant", "crossfade-classic"} :
    InitRoot(n, kind)

\* attach on a page whose URL carries the fragment hash
LinkAttach ==
  /\ orch.phase = "new"
  /\ \E hash \in Fragments :
       LET env == [dataset |-> DefaultDataset, deeplink |-> TRUE,
                   reducedMotion |-> FALSE, inView |-> TRUE, hash |-> hash]
           t == orchInit([Begin EXCEPT !.obs.fragment = hash], 0, env)
       IN Step("attach",
               [t EXCEPT !.orch.phase = "attached",
                         !.orch.vvjsSlideshow = TRUE])

\* hashchange of the window: the fragment of the page has become hash
HashChange ==
  /\ orch.vvjsHashChangeHandler
  /\ \E hash \in Fragments :
       Step("hashchange",
            onHashChange([Begin EXCEPT !.obs.fragment = hash], hash))

NextLink ==
  \/ LinkAttach
  \/ HashChange
  \/ ClickNext
  \/ HandlerReturns

LinkSpec == InitLink /\ [][NextLink]_vars

\* ------------------------------------------------------------- geometry
\* A specification of the visibility computed from the geometry: a root is
\* attached while its bounding rectangle lies somewhere inside, across or
\* outside a window of 100 by 100, and the window is resized (the debounced
\* callback runs) while the rectangle lies somewhere else.  The observer
\* notes the rectangle as input (top, left, height, width) and the result
\* of checkElementVisibility() as flag.
Viewport == [height |-> 100, width |-> 100]

Offsets == {0 - 150, 0 - 50, 0, 50, 150}

Extents == {0, 40, 100}

Rects == [top : Offsets, left : Offsets, height : Extents, width : Extents]

rectInput(rect) == <<rect.top, rect.left, rect.height, rect.width>>

GeometryAttach ==
  /\ orch.phase = "new"
  /\ \E rect \in Rects :
       LET inView == checkElementVisibility(rect, Viewport)
           env == [dataset |-> DefaultDataset, deeplink |-> FALSE,
                   reducedMotion |-> FALSE, inView |-> inView]
           t == orchInit([Begin EXCEPT !.obs.input = rectInput(rect),
                                       !.obs.flag = <<inView>>], 0, env)
       IN Step("attach",
               [t EXCEPT !.orch.phase = "attached",
                         !.orch.vvjsSlideshow = TRUE])

GeometryResize ==
  /\ "visibility" \in orch.wired
  /\ \E rect \in Rects :
       LET inView == checkElementVisibility(rect, Viewport) IN
       Step("resize",
            handleResize([Begin EXCEPT !.obs.input = rectInput(rect),
                                       !.obs.flag = <<inView>>], inView))

NextGeometry ==
  \/ GeometryAttach
  \/ GeometryResize
  \/ HandlerReturns

GeometrySpec == InitInstant /\ [][NextGeometry]_vars

\* ------------------------------------------------------- progress bar
\* A specification of the progress indicator: a root that shows the progress
\* bar (data-show-slide-progress="true"), with or without looping, is
\* attached in view or out of view; it is clicked (next arrow, play/pause
\* button), hovered, scrolled in and out of view, the tab is hidden and
\* shown, and the timers of autoplay and of the progress bar tick.
ProgressAttach ==
  /\ orch.phase = "new"
  /\ \E looping \in {"true", "false"}, inView \in BOOLEAN :
       LET dataset ==
             [f \in DOMAIN DefaultDataset \cup {"showSlideProgress"} |->
                IF f = "showSlideProgress" THEN "true"
                ELSE IF f = "enableLooping" THEN looping
                ELSE DefaultDataset[f]]
           env == [dataset |-> dataset, deeplink |-> FALSE,
                   reducedMotion |-> FALSE, inView |-> inView]
           t == orchInit(Begin, 0, env)
       IN Step("attach",
               [t EXCEPT !.orch.phase = "attached",
                         !.orch.vvjsSlideshow = TRUE])

\* SlideshowProgress.resetProgress, as far as the timer goes
resetProgress(s) == immediateStop(s)

\* A click on the play/pause button: the listener of SlideshowNavigation on
\* the button (resetProgress() of the progress module stored on the root if
\* the instance is not paused, then togglePause()), then the click listener
\* of SlideshowProgress on the root.
onPlayPauseClick(s) ==
  LET s1 == IF s.orch.vvjsModules /\ ~s.core.isPaused
            THEN resetProgress(s) ELSE s
      s2 == togglePause(s1)
  IN IF "progress" \in s2.orch.wired /\ s2.core.isPaused
     THEN immediateStop(s2) ELSE s2

ClickPlayPauseButton ==
  /\ "navigation" \in orch.wired
  /\ Step("click.playPause", onPlayPauseClick(Begin))

\* mouseenter on the slide list: the listener of SlideshowProgress, then the
\* listener of SlideshowEvents
MouseEnterSlides ==
  /\ "events" \in orch.wired /\ ~events.isMouseOver
  /\ Step("mouseenter",
          handleMouseEnter(IF "progress" \in orch.wired
                           THEN immediateStop(Begin) ELSE Begin))

\* The callback of the 50 ms timer of startProgress; elapsed: the slide time
\* has passed since the progress started, so updateProgress() reaches 100
\* and stops the timer.
ProgressTick ==
  /\ progress.progressIntervalId # 0
  /\ \E elapsed \in BOOLEAN :
       Step("progress.tick",
            IF progress.isActive /\ ~core.isPaused
            THEN (IF elapsed THEN immediateStop(Begin) ELSE Begin)
            ELSE immediateStop(Begin))

NextProgress ==
  \/ ProgressAttach
  \/ ClickNext
  \/ ClickPlayPauseButton
  \/ MouseEnterSlides
  \/ MouseLeave
  \/ IntersectionChange
  \/ PageVisibilityChange
  \/ AutoSlideTick
  \/ ProgressTick
  \/ HandlerReturns

ProgressSpec == InitInstant /\ [][NextProgress]_vars

\* ------------------------------------------------------------ properties
\* the positions in the record of the running handler of one notification type
Emitted(type) ==
  {i \in 1..Len(obs.emitted) : obs.emitted[i].type = type}

CountOf(type) == Cardinality(Emitted(type))

\* the handlers that are one navigation call (with or without the restart of
\* the timer that clicks and keys add)
NavigationOps ==
  {"nextSlide", "prevSlide", "goToSlide",
   "nextSlide+start", "prevSlide+start", "goToSlide+start"}

\* a navigation call has just run and has changed the index successfully
Navigated ==
  /\ obs.handled
  /\ obs.lastOp \in NavigationOps
  /\ CountOf("vvjs:slideChanging") > 0

Armed == core.autoSlideIntervalId # 0

\* C1: every successful navigation is followed by exactly one
\* vvjs:slideChanged, not zero and not two, for instant and for crossfade.
\* In the instant kind the notification comes within the navigation call, so
\* the call emits as many slideChanged as slideChanging; in a crossfade kind
\* it comes with the completion of the job of that navigation, so no
\* navigation may cancel a job whose completion is still due.
C1_ExactlyOneChanged ==
  Navigated =>
    /\ dom.transition = "instant" =>
         CountOf("vvjs:slideChanged") = CountOf("vvjs:slideChanging")
    /\ dom.transition # "instant" =>
         /\ CountOf("vvjs:slideChanged") = 0
         /\ obs.before.activeTransition = 0

\* C2: whenever the autoplay interval timer is armed, the instance is not
\* paused, the page is not hidden, the element-visible flag is set and the
\* interval is positive.
C2_ArmedOnlyWhenMayRun ==
  Armed =>
    /\ ~core.isPaused
    /\ ~browser.hidden
    /\ core.isVisible
    /\ core.slideTime > 0

\* C3: at most one transition job exists: the armed fallback timers and the
\* transition-end listeners all belong to the one active job; a navigation
\* that starts while a job is in flight leaves only its own job; and a handler
\* emits vvjs:transitionComplete for no job other than the one that was active
\* when it began (a superseded job never completes).
C3_AtMostOneJob ==
  /\ Cardinality(browser.timeouts) <= 1
  /\ Cardinality(browser.listeners) <= 1
  /\ \A j \in browser.timeouts \cup browser.listeners :
       j = transitions.activeTransition
  /\ obs.handled =>
       \A i \in Emitted("vvjs:transitionComplete") :
         obs.emitted[i].job # 0 =>
           obs.emitted[i].job = obs.before.activeTransition

\* C3 witness: a navigation ran while a crossfade job was in flight and left
\* one job, its own.
C3_Witness ==
  /\ Navigated
  /\ obs.before.activeTransition # 0
  /\ transitions.activeTransition # 0
  /\ browser.timeouts = {transitions.activeTransition}
  /\ browser.listeners = {transitions.activeTransition}

\* C4: when the transition-end listener or the fallback timer of a crossfade
\* job runs, vvjs:transitionComplete is emitted exactly once for that job and
\* the other of the two is disarmed, so that it can emit nothing later.
C4_CompletionOnce ==
  obs.handled /\ obs.firedJob # 0 =>
    /\ Cardinality({i \in Emitted("vvjs:transitionComplete") :
                      obs.emitted[i].job = obs.firedJob}) = 1
    /\ obs.firedJob \notin browser.timeouts \cup browser.listeners

\* C4 witness: the transition-end listener of a job ran first, completed the
\* job and disarmed the fallback timer.
C4_Witness ==
  /\ obs.handled
  /\ obs.lastOp = "transitionend"
  /\ obs.firedJob # 0
  /\ obs.firedJob = obs.before.activeTransition
  /\ CountOf("vvjs:transitionComplete") = 1
  /\ browser.timeouts = {}

\* C5: each vvjs:slideChanged and each vvjs:transitionComplete is preceded by
\* exactly one vvjs:slideChanging since the previous notification of its own
\* type.
C5_OneChangingBefore ==
  obs.handled =>
    \A i \in 1..Len(obs.emitted) :
      /\ obs.emitted[i].type = "vvjs:slideChanged" =>
           obs.emitted[i].sinceChanged = 1
      /\ obs.emitted[i].type = "vvjs:transitionComplete" =>
           obs.emitted[i].sinceComplete = 1

\* C6: once the core is constructed, 1 <= slideIndex <= totalSlides and
\* totalSlides >= 1, whatever the start index attribute was and whatever
\* calls were made.
C6_IndexInRange ==
  orch.phase # "new" =>
    /\ core.totalSlides >= 1
    /\ 1 <= core.slideIndex
    /\ core.slideIndex <= core.totalSlides

\* C6 witness: nextSlide() at the last of several slides wrapped to the first.
C6_Witness ==
  /\ Navigated
  /\ obs.lastOp = "nextSlide"
  /\ obs.before.core.totalSlides > 1
  /\ obs.before.core.slideIndex = obs.before.core.totalSlides
  /\ core.slideIndex = 1

\* C7: after destroy() no autoplay or transition fallback timer is live, and
\* no later input makes the instance emit a notification, change its index or
\* arm a timer.
C7_QuietAfterDestroy ==
  orch.phase = "destroyed" =>
    /\ browser.intervals = {}
    /\ browser.timeouts = {}
    /\ obs.handled /\ obs.lastOp # "destroy" =>
         /\ obs.emitted = <<>>
         /\ core.slideIndex = obs.before.core.slideIndex

\* C8, as the claim states it: after one togglePause(), a second one restores
\* the paused flag and the running state of the timer to what they were
\* before the first.
C8_TwiceRestores ==
  obs.handled /\ obs.lastOp = "togglePause" =>
    LET t == togglePause(Cur) IN
    /\ t.core.isPaused = obs.before.core.isPaused
    /\ (t.core.autoSlideIntervalId # 0)
         = (obs.before.core.autoSlideIntervalId # 0)

\* C8, amended: two togglePause() calls restore the paused flag always, and
\* the running state of the timer when before the calls the instance was
\* paused, or its timer was armed, or the element-visible flag was unset;
\* from an instance not paused and visible whose timer is stopped the second
\* call leaves the timer armed.
C8_TwiceRestoresWhenRunningOrPaused ==
  obs.handled /\ obs.lastOp = "togglePause" =>
    LET t == togglePause(Cur)
        wasArmed == obs.before.core.autoSlideIntervalId # 0
    IN /\ t.core.isPaused = obs.before.core.isPaused
       /\ (t.core.autoSlideIntervalId # 0) =
            IF obs.before.core.isPaused \/ wasArmed
               \/ ~obs.before.core.isVisible
            THEN wasArmed ELSE TRUE

\* C8 witness: togglePause() ran on a running instance and stopped its timer;
\* the second call arms it again.
C8_Witness ==
  /\ obs.handled
  /\ obs.lastOp = "togglePause"
  /\ obs.before.core.autoSlideIntervalId # 0
  /\ ~obs.before.core.isPaused
  /\ core.isPaused /\ ~Armed
  /\ togglePause(Cur).core.autoSlideIntervalId # 0

\* C9: with looping disabled, nextSlide() at the last slide leaves the index
\* unchanged, emits neither vvjs:slideChanging nor vvjs:slideChanged and
\* leaves the autoplay timer stopped.
C9_NextAtEndStops ==
  /\ obs.handled
  /\ obs.lastOp = "nextSlide"
  /\ ~obs.before.core.loopingEnabled
  /\ obs.before.core.slideIndex = obs.before.core.totalSlides
  => /\ core.slideIndex = obs.before.core.slideIndex
     /\ CountOf("vvjs:slideChanging") = 0
     /\ CountOf("vvjs:slideChanged") = 0
     /\ ~Armed
     /\ browser.intervals = {}

\* C9 witness: the autoplay timer was running at the last slide of a root
\* without looping, nextSlide() ran, and the timer is stopped.
C9_Witness ==
  /\ obs.handled
  /\ obs.lastOp = "nextSlide"
  /\ ~obs.before.core.loopingEnabled
  /\ obs.before.core.totalSlides > 1
  /\ obs.before.core.slideIndex = obs.before.core.totalSlides
  /\ obs.before.core.autoSlideIntervalId # 0
  /\ ~Armed

\* C10, as the claim states it: vvjs:slideChanging carries the index before
\* the call and the index after it, is emitted before any slide is touched,
\* and an observer that reads the index of the instance while it handles the
\* notification still reads fromIndex.
C10_ChangingBeforeIndexUpdate ==
  Navigated =>
    \A i \in Emitted("vvjs:slideChanging") :
      /\ obs.emitted[i].a = obs.before.core.slideIndex
      /\ obs.emitted[i].b = core.slideIndex
      /\ obs.emitted[i].domUntouched
      /\ obs.emitted[i].slideIndex = obs.emitted[i].a

\* C10, amended: vvjs:slideChanging carries the index before the call and
\* the index after it and is emitted before any slide is touched and before
\* currentSlideIndex is updated; slideIndex is already the new index, so an
\* observer reads slideIndex = toIndex and currentSlideIndex = fromIndex.
C10_ChangingBeforeTrackedIndexUpdate ==
  Navigated =>
    \A i \in Emitted("vvjs:slideChanging") :
      /\ obs.emitted[i].a = obs.before.core.slideIndex
      /\ obs.emitted[i].b = core.slideIndex
      /\ obs.emitted[i].domUntouched
      /\ obs.emitted[i].slideIndex = obs.emitted[i].b
      /\ obs.emitted[i].currentSlideIndex = obs.emitted[i].a

\* C10 witness: a navigation moved the index and emitted vvjs:slideChanging
\* with different fromIndex and toIndex.
C10_Witness ==
  /\ Navigated
  /\ core.slideIndex # obs.before.core.slideIndex
  /\ \E i \in Emitted("vvjs:slideChanging") :
       obs.emitted[i].a # obs.emitted[i].b

\* C11: togglePause() flips the paused flag, then emits vvjs:pauseToggled with
\* the new value, then stops (now paused) or starts (now unpaused) the timer:
\* the notification is the first of the call, its listener reads the flag
\* already flipped and the timer as it was before the call, and only the
\* notifications of the timer follow it.
C11_ToggleOrder ==
  obs.handled /\ obs.lastOp = "togglePause" =>
    /\ Len(obs.emitted) >= 1
    /\ obs.emitted[1].type = "vvjs:pauseToggled"
    /\ obs.emitted[1].flag = ~obs.before.core.isPaused
    /\ obs.emitted[1].isPaused = ~obs.before.core.isPaused
    /\ obs.emitted[1].armed = (obs.before.core.autoSlideIntervalId # 0)
    /\ \A i \in 2..Len(obs.emitted) :
         obs.emitted[i].type
           \in {"vvjs:autoSlideStopped", "vvjs:autoSlideStarted"}
    /\ core.isPaused = ~obs.before.core.isPaused
    /\ core.isPaused => ~Armed
    /\ ~core.isPaused => (Armed <=> core.slideTime > 0 /\ core.isVisible)

\* C11 witness: togglePause() paused a running instance; the listener of
\* vvjs:pauseToggled read paused = TRUE while the timer was still armed, and
\* the timer is stopped after the call.
C11_Witness ==
  /\ obs.handled
  /\ obs.lastOp = "togglePause"
  /\ obs.before.core.autoSlideIntervalId # 0
  /\ obs.emitted[1].type = "vvjs:pauseToggled"
  /\ obs.emitted[1].isPaused
  /\ obs.emitted[1].armed
  /\ ~Armed

\* C12: on a root whose configured autoplay interval is 0 the autoplay timer
\* is never armed (so no autoplay tick can change the index).
C12_ZeroIntervalNeverArmed ==
  dom.time = <<0>> =>
    /\ ~Armed
    /\ browser.intervals = {}

\* C13: when the page becomes hidden the autoplay timer is stopped within
\* that step; when the page becomes visible again the timer runs after the
\* step if and only if the element is threshold-visible at that moment and
\* the instance is not paused.
C13_HiddenStopsVisibleResumes ==
  obs.handled /\ obs.lastOp = "visibilitychange" =>
    IF browser.hidden
    THEN ~Armed
    ELSE Armed <=> (obs.flag[1] /\ ~core.isPaused)

\* C14: once reduced motion has been detected (when the transitions were
\* constructed or by a later change of the media query), the transition type
\* is instant and stays instant when the preference flips back, and every
\* navigation from then on completes within the navigation call: each
\* vvjs:slideChanging is followed in the same call by a
\* vvjs:transitionComplete that no job produced, and no fallback timer and
\* no transitionend listener is armed afterwards.
C14_ReducedMotionInstant ==
  transitions.originalTransitionType # "" =>
    /\ transitions.transitionType = "instant"
    /\ Navigated =>
         /\ \A i \in Emitted("vvjs:slideChanging") :
              \E k \in Emitted("vvjs:transitionComplete") :
                k > i /\ obs.emitted[k].job = 0
         /\ transitions.activeTransition = 0
         /\ browser.timeouts = {}
         /\ browser.listeners = {}

\* a navigation on a root configured with a crossfade, after reduced motion
\* was detected
C14_Witness ==
  /\ Navigated
  /\ transitions.originalTransitionType
       \in {"crossfade-classic", "crossfade-staged", "crossfade-dynamic"}
  /\ CountOf("vvjs:transitionComplete") > 0

\* the media query has just changed back to no preference on such a root
C14_WitnessFlipBack ==
  /\ obs.handled /\ obs.lastOp = "reducedMotion" /\ obs.flag = <<FALSE>>
  /\ transitions.originalTransitionType = "crossfade-staged"

\* C15: after goToSlide(n) on the core of the instance with 1 <= n <= total
\* (called directly, or by a dot of the instance), getState() reports
\* slideIndex = n.
C15_GoToThenGetState ==
  /\ obs.handled
  /\ obs.lastOp \in {"goToSlide", "goToSlide+start"}
  /\ obs.input # <<>>
  /\ obs.input[1] >= 1 /\ obs.input[1] <= core.totalSlides
  /\ "core" \in orch.modules
  => /\ getState # <<>>
     /\ getState.slideIndex = obs.input[1]

\* goToSlide(n) has moved the instance from another slide to slide n
C15_Witness ==
  /\ obs.handled /\ obs.lastOp = "goToSlide"
  /\ obs.input # <<>> /\ obs.input[1] = core.totalSlides
  /\ obs.before.core.slideIndex # obs.input[1]
  /\ getState # <<>>

\* C16: with looping enabled, every nextSlide() call moves the index from i
\* to (i % total) + 1 and every prevSlide() call from i to total if i = 1 and
\* to i - 1 otherwise; total consecutive nextSlide() calls from index 1 visit
\* 2, ..., total and then return to 1; prevSlide() right after nextSlide()
\* returns to the index before the two calls.
C16_LoopingWalk ==
  core.loopingEnabled /\ obs.trail # <<>> =>
    LET total == core.totalSlides
        calls == obs.calls
        trail == obs.trail
    IN /\ Len(trail) = Len(calls) + 1
       /\ \A k \in DOMAIN calls :
            /\ calls[k] = "next" => trail[k + 1] = (trail[k] % total) + 1
            /\ calls[k] = "prev" =>
                 trail[k + 1] = IF trail[k] = 1 THEN total ELSE trail[k] - 1
       /\ trail[1] = 1 /\ Len(calls) >= total
            /\ (\A k \in 1..total : calls[k] = "next")
          => /\ \A k \in 1..(total - 1) : trail[k + 1] = k + 1
             /\ trail[total + 1] = 1
       /\ \A k \in DOMAIN calls :
            k + 1 \in DOMAIN calls /\ calls[k] = "next" /\ calls[k + 1] = "prev"
            => trail[k + 2] = trail[k]

\* five slides, looping: four nextSlide() calls from 1 have reached 5 and the
\* fifth has returned to 1
C16_Witness ==
  /\ core.loopingEnabled /\ core.totalSlides = 5
  /\ obs.calls = <<"next", "next", "next", "next", "next">>
  /\ obs.trail = <<1, 2, 3, 4, 5, 1>>

\* a crossfade job is in flight while the page is idle
JobInFlight == ~obs.handled /\ transitions.activeTransition # 0

\* the handler that just ran dispatched the completion of a job, or
\* superseded the job by a new navigation, or destroyed the instance
JobSettled ==
  /\ obs.handled
  /\ \/ \E k \in Emitted("vvjs:transitionComplete") : obs.emitted[k].job # 0
     \/ CountOf("vvjs:slideChanging") > 0
     \/ obs.lastOp = "destroy"

\* C17: a crossfade job in flight is eventually completed (its
\* vvjs:transitionComplete is dispatched) unless a newer navigation supersedes
\* it or destroy() cancels it; no transitionend event is needed for that, the
\* fallback timeout is enough.
C17_JobEventuallyCompletes == JobInFlight ~> JobSettled

\* the fallback timeout has completed a job
C17_Witness ==
  /\ obs.handled /\ obs.lastOp = "transition.timeout"
  /\ \E k \in Emitted("vvjs:transitionComplete") : obs.emitted[k].job # 0

\* the index, the paused flag and the autoplay timer are as they were when the
\* running handler began
CoreUntouched ==
  /\ core.slideIndex = obs.before.core.slideIndex
  /\ core.isPaused = obs.before.core.isPaused
  /\ core.autoSlideIntervalId = obs.before.core.autoSlideIntervalId
  /\ browser.intervals = {core.autoSlideIntervalId} \ {0}

\* C18: a public control call whose identifier names no instance, or (for
\* goToSlide) whose index is out of range, returns false or null, does not
\* throw, and leaves index, paused flag and autoplay timer as they were.
C18_FailureIndicator ==
  /\ obs.handled /\ obs.lastOp \in ApiOps
  /\ \/ MatchesNoInstance(obs.identifier)
     \/ /\ obs.lastOp = "api.goToSlide"
        /\ obs.input # <<>>
        /\ obs.input[1] < 1 \/ obs.input[1] > core.totalSlides
  => /\ obs.returned \in {"false", "null"}
     /\ CoreUntouched

\* C19: an input addressed to another instance of the page (a key pressed
\* while the focus is inside the other root, a fragment that names the
\* identifier of the other root) leaves index, paused flag and autoplay timer
\* of this instance as they were.
C19_OtherInstanceInputIsolated ==
  obs.handled /\ obs.lastOp \in {"keydown.other", "hashchange.other"} =>
    CoreUntouched

\* C20: after reinitialize() the instance answers a navigation as a fresh
\* instance does, with one vvjs:slideChanging and one
\* vvjs:transitionComplete, and nothing of the destroyed modules reacts any
\* more: their core keeps the index it had and arms no timer.
C20_ReinitializedLikeFresh ==
  orch.stale # <<>> /\ obs.handled /\ obs.lastOp = "nextSlide+start" =>
    /\ CountOf("vvjs:slideChanging") <= 1
    /\ CountOf("vvjs:transitionComplete") = CountOf("vvjs:slideChanging")
    /\ orch.stale.core.autoSlideIntervalId = 0
    /\ browser.intervals = {core.autoSlideIntervalId} \ {0}

\* the instance has not hidden slide i: neither display:none nor opacity 0
\* is set on it; for the instant kind the instance displays it as a block
SlideShown(i) ==
  /\ i \in DOMAIN dom.slides
  /\ dom.slides[i].display # "none"
  /\ dom.slides[i].opacity # "0"
  /\ dom.transition = "instant" => dom.slides[i].display = "block"

\* C21: when the constructor of a component after the state machine throws
\* during attach, the attach call still completes and stores the instance,
\* the root carries the class vvjs-error, the state machine stays in the
\* modules of the instance and the initial slide is shown.
C21_ConstructionFailureContained ==
  /\ obs.handled /\ obs.lastOp = "attach"
  /\ obs.input # <<>> /\ obs.input[1] >= 2
  => /\ orch.phase = "attached" /\ orch.vvjsSlideshow
     /\ "vvjs-error" \in dom.classes
     /\ "vvjs-initialized" \notin dom.classes
     /\ "core" \in orch.modules
     /\ core.slideIndex = 1 /\ core.currentSlideIndex = 1
     /\ SlideShown(core.slideIndex)

\* the constructor of the transition engine of a crossfade root has thrown
C21_Witness ==
  /\ obs.handled /\ obs.lastOp = "attach"
  /\ obs.input = <<2>> /\ dom.transition = "crossfade-classic"
  /\ "vvjs-error" \in dom.classes
  /\ orch.modules = {"core"}

\* the modules of ms that define destroy(), last constructed first
ReverseConstructed(ms) ==
  LET n == Len(ModuleOrder)
      reversed == [i \in 1..n |-> ModuleOrder[n + 1 - i]]
      torndown(m) == m \in ms /\ m \in HasDestroy
  IN SelectSeq(reversed, torndown)

\* C22: destroy() calls the destroy() of the constructed modules that define
\* one in the reverse of the construction order, whether or not one of them
\* throws; a module whose destroy() did not throw is torn down (the autoplay
\* timer of the state machine is cleared), and the last notification of the
\* call is vvjs:destroyed.
C22_ReverseTeardownIsolated ==
  /\ obs.handled /\ obs.lastOp = "destroy"
  => /\ obs.torn = ReverseConstructed(obs.before.modules)
     /\ obs.emitted # <<>>
     /\ obs.emitted[Len(obs.emitted)].type = "vvjs:destroyed"
     /\ CountOf("vvjs:destroyed") = 1
     /\ orch.modules = {}
     /\ "core" \in obs.before.modules /\ obs.input # <<1>>
          => core.autoSlideIntervalId = 0
     /\ "visibility" \in obs.before.modules /\ obs.input # <<6>>
          => ~visibility.observing

\* the destroy() of the events module, the first one called, has thrown on
\* an instance with an armed autoplay timer, and the four others were called
C22_Witness ==
  /\ obs.handled /\ obs.lastOp = "destroy"
  /\ obs.input = <<7>>
  /\ obs.before.core.autoSlideIntervalId # 0
  /\ Len(obs.torn) = 5 /\ obs.torn[1] = "events" /\ obs.torn[5] = "core"
  /\ core.autoSlideIntervalId = 0

\* Drupal.vvjs.getInstance(root): the instance stored on the root, or null
getInstance == IF orch.vvjsSlideshow THEN "instance" ELSE "null"

\* Drupal.vvjs.getAllInstances(): the instances stored on the roots that carry
\* the class vvjs-initialized
getAllInstances ==
  IF "vvjs-initialized" \in dom.classes /\ orch.vvjsSlideshow
  THEN {"instance"} ELSE {}

\* C23: after destroy() has returned, getInstance(root) yields null and
\* getAllInstances() does not contain the instance.
C23_DestroyDetachesInstance ==
  /\ obs.handled /\ obs.lastOp = "destroy"
  => /\ getInstance = "null"
     /\ "instance" \notin getAllInstances

\* C24: a gesture that began with a pointerdown on a root with swipe enabled
\* and ends with a pointerup is a swipe exactly when |endX - startX| exceeds
\* the drag threshold (40) and |endY - startY| is below 1.5 times the
\* threshold; a swipe to the right (deltaX > 0) calls prevSlide() once, a
\* swipe to the left (deltaX < 0) calls nextSlide() once, and a gesture that
\* is no swipe calls neither; deltaX = -60 with deltaY = 5 goes to the next
\* slide.
C24_SwipeClassification ==
  /\ obs.handled /\ obs.lastOp = "pointerup"
  /\ obs.before.events.swipeEnabled
  /\ obs.before.events.touchStartX # <<>>
  => LET deltaX == obs.input[1] - obs.before.events.touchStartX[1]
         deltaY == mathAbs(obs.input[2] - obs.before.events.touchStartY[1])
         threshold == obs.before.events.dragThreshold
         isSwipe == /\ mathAbs(deltaX) > threshold
                    /\ 2 * deltaY < 3 * threshold
         i == obs.before.core.slideIndex
         total == core.totalSlides
         next == (i % total) + 1
         prev == IF i = 1 THEN total ELSE i - 1
     IN /\ threshold = 40
        /\ isSwipe /\ deltaX > 0
             => /\ CountOf("vvjs:slideChanging") = 1
                /\ core.slideIndex = prev
        /\ isSwipe /\ deltaX < 0
             => /\ CountOf("vvjs:slideChanging") = 1
                /\ core.slideIndex = next
        /\ isSwipe <=> CountOf("vvjs:swipe") = 1
        /\ ~isSwipe
             => /\ CountOf("vvjs:slideChanging") = 0
                /\ core.slideIndex = i
                /\ core.autoSlideIntervalId
                     = obs.before.core.autoSlideIntervalId
        /\ deltaX = 0 - 60 /\ deltaY = 5 => core.slideIndex = next

\* the gesture from (60, 0) to (0, 5) has moved a root of three slides or
\* more from slide 1 to slide 2
C24_Witness ==
  /\ obs.handled /\ obs.lastOp = "pointerup"
  /\ obs.before.events.touchStartX = <<60>>
  /\ obs.before.events.touchStartY = <<0>>
  /\ obs.input = <<0, 5>>
  /\ core.totalSlides >= 3
  /\ obs.before.core.slideIndex = 1 /\ core.slideIndex = 2
  /\ CountOf("vvjs:swipe") = 1

\* C25: in every state at most one interval timer of the instance is armed,
\* and it is the one autoSlideIntervalId names; after a handler that ends
\* with startAutoSlide(), whether or not a timer was armed before it, exactly
\* one timer is armed when autoplay is permitted (slideTime > 0, not paused,
\* visible) and none otherwise.
C25_AtMostOneTimer ==
  /\ Cardinality(browser.intervals) <= 1
  /\ browser.intervals = {core.autoSlideIntervalId} \ {0}
  /\ obs.handled
       /\ obs.lastOp \in {"nextSlide+start", "prevSlide+start",
                          "goToSlide+start"}
     => Cardinality(browser.intervals)
          = IF core.slideTime > 0 /\ ~core.isPaused /\ core.isVisible
            THEN 1 ELSE 0

\* a click on the next arrow has called startAutoSlide() while a timer was
\* armed, and one timer is armed
C25_Witness ==
  /\ obs.handled /\ obs.lastOp = "nextSlide+start"
  /\ obs.before.core.autoSlideIntervalId # 0
  /\ Cardinality(browser.intervals) = 1
  /\ CountOf("vvjs:autoSlideStarted") = 1

\* C26: on an instant root a navigation call that changes the slide emits
\* vvjs:slideChanged before it returns; on a crossfade root every
\* vvjs:slideChanged follows, in the same handler, the vvjs:transitionComplete
\* of the job for the same slide, so a navigation call that leaves its job in
\* flight has emitted no vvjs:slideChanged.
C26_ChangedAfterCompletion ==
  /\ Navigated /\ dom.transition = "instant"
       => CountOf("vvjs:slideChanged") >= 1
  /\ obs.handled /\ dom.transition # "instant"
       => /\ \A i \in Emitted("vvjs:slideChanged") :
               /\ i > 1
               /\ obs.emitted[i - 1].type = "vvjs:transitionComplete"
               /\ obs.emitted[i - 1].a = obs.emitted[i].a
          /\ Navigated /\ transitions.activeTransition # 0
               => CountOf("vvjs:slideChanged") = 0

\* the transition of a crossfade root has ended and the handler has emitted
\* vvjs:transitionComplete and then vvjs:slideChanged
C26_Witness ==
  /\ obs.handled /\ obs.lastOp = "transitionend"
  /\ dom.transition = "crossfade-classic"
  /\ Len(obs.emitted) = 2
  /\ obs.emitted[1].type = "vvjs:transitionComplete"
  /\ obs.emitted[2].type = "vvjs:slideChanged"
  /\ obs.emitted[2].a = 2

\* a navigation call on a crossfade root has returned with its job in flight
C26_WitnessInFlight ==
  /\ Navigated /\ dom.transition = "crossfade-classic"
  /\ transitions.activeTransition # 0
  /\ CountOf("vvjs:slideChanged") = 0

\* C27: in a handler that runs after the instance is constructed, the paused
\* flag changes only together with one vvjs:pauseToggled that carries the new
\* value, the index changes only in a navigation of the state machine (which
\* emits vvjs:slideChanging), and the element-visible flag changes only in
\* the handlers that call setVisibility().
C27_StateFieldsOwned ==
  /\ obs.handled /\ obs.lastOp # "attach"
  => /\ core.isPaused # obs.before.core.isPaused
          => /\ CountOf("vvjs:pauseToggled") = 1
             /\ \A i \in Emitted("vvjs:pauseToggled") :
                  obs.emitted[i].flag = core.isPaused
     /\ core.slideIndex # obs.before.core.slideIndex
          => CountOf("vvjs:slideChanging") >= 1
     /\ core.isVisible # obs.before.core.isVisible
          => obs.lastOp \in {"intersection", "visibilitychange", "resize"}

\* C28: goToSlide(n) on the state machine with n < 1, n > total or n NaN
\* returns without a notification and leaves the index, the paused flag, the
\* autoplay timer and the slides as they were.
C28_OutOfRangeIsNoOp ==
  /\ obs.handled /\ obs.lastOp = "goToSlide"
  /\ \/ obs.input = <<>>
     \/ obs.input[1] < 1
     \/ obs.input[1] > core.totalSlides
  => /\ CoreUntouched
     /\ core.currentSlideIndex = obs.before.core.currentSlideIndex
     /\ obs.emitted = <<>>
     /\ dom.slides = obs.before.slides
     /\ transitions.activeTransition = obs.before.activeTransition

\* goToSlide(0) was called on an instance that shows slide 2 with the timer
\* armed
C28_Witness ==
  /\ obs.handled /\ obs.lastOp = "goToSlide"
  /\ obs.input = <<0>>
  /\ core.slideIndex = 2 /\ core.autoSlideIntervalId # 0

\* goToSlide(NaN) was called on an instance that shows slide 2
C28_WitnessNaN ==
  /\ obs.handled /\ obs.lastOp = "goToSlide"
  /\ obs.input = <<>>
  /\ core.slideIndex = 2 /\ obs.emitted = <<>>

\* C29: on a root without slide list or without slides attach completes and
\* stores the instance, and every later nextSlide(), prevSlide(),
\* goToSlide() or autoplay tick, whether from the controls, the timer or a
\* public call that names the root, leaves the index as it was and a number,
\* emits no vvjs:slideChanging or vvjs:slideChanged and does not throw.
C29_EmptyRootIsNoOp ==
  /\ obs.handled
  /\ ~dom.slideshow \/ DOMAIN dom.slides = {}
  => /\ obs.lastOp = "attach"
          => orch.vvjsSlideshow /\ orch.phase = "attached"
     /\ \/ obs.lastOp \in NavigationOps
        \/ /\ obs.lastOp = "api.nextSlide"
           /\ getContainerByIdentifier(obs.identifier) = "this"
          => /\ core.slideIndex = obs.before.core.slideIndex
             /\ core.slideIndex # NaN
             /\ CountOf("vvjs:slideChanging") = 0
             /\ CountOf("vvjs:slideChanged") = 0
             /\ obs.returned # "throws"

\* C30: Drupal.vvjs.goToSlide(identifier, n) returns true only when the
\* index of the instance is n after the call, and it returns false when the
\* identifier names no instance, when n is out of range and when n is missing
\* or NaN.
C30_TrueOnlyIfNavigated ==
  /\ obs.handled /\ obs.lastOp = "api.goToSlide"
  => /\ obs.returned = "true"
          => obs.input # <<>> /\ core.slideIndex = obs.input[1]
     /\ \/ MatchesNoInstance(obs.identifier)
        \/ obs.input = <<>>
        \/ obs.input[1] < 1
        \/ obs.input[1] > core.totalSlides
          => obs.returned = "false"

\* C31: with looping disabled and the index at the last slide, next through
\* an entry point from outside (the next arrow, the ArrowRight key, a swipe to
\* the left, Drupal.vvjs.nextSlide) leaves the index unchanged and leaves the
\* autoplay timer not armed when the entry point has returned.
C31_NextEntryAtEndStops ==
  /\ obs.handled
  /\ \/ obs.lastOp = "nextSlide+start"
     \/ obs.lastOp = "api.nextSlide" /\ obs.returned = "true"
     \/ obs.lastOp = "pointerup" /\ CountOf("vvjs:swipe") = 1
                                 /\ obs.emitted[Len(obs.emitted)].a = 0 - 1
  /\ ~obs.before.core.loopingEnabled
  /\ obs.before.core.slideIndex = obs.before.core.totalSlides
  => /\ core.slideIndex = obs.before.core.slideIndex
     /\ ~Armed
     /\ browser.intervals = {}

\* C32: on a root with pause on hover, from mouseenter until mouseleave the
\* autoplay timer is never armed, whatever other events arrive in between;
\* mouseleave arms it only if the instance is not paused and the element is
\* visible.
C32_HoverKeepsTimerStopped ==
  /\ events.pauseOnHover /\ events.isMouseOver => ~Armed
  /\ obs.handled /\ obs.lastOp = "mouseleave"
       /\ obs.before.events.pauseOnHover /\ Armed
     => ~core.isPaused /\ core.isVisible

\* slide i carries the active visual state: the marker class vvjs-active,
\* opacity 1 and the upper z-index
SlideActive(i) ==
  /\ dom.slides[i].vvjsActive /\ ~dom.slides[i].vvjsPrevious
  /\ dom.slides[i].opacity = "1"
  /\ dom.slides[i].zIndex = "2"

\* slide i carries the previous (hidden) visual state
SlidePrevious(i) ==
  /\ dom.slides[i].vvjsPrevious /\ ~dom.slides[i].vvjsActive
  /\ dom.slides[i].opacity = "0"
  /\ dom.slides[i].zIndex = "1"

\* C33: on an attached root whose transition engine runs a crossfade kind,
\* after construction with any start index and after every transition,
\* exactly one slide carries the active visual state, it is the slide at the
\* index of the state machine, and every other slide carries the previous
\* state.
C33_OneActiveSlideAtIndex ==
  /\ orch.phase = "attached"
  /\ "transitions" \in orch.wired
  /\ transitions.transitionType
       \in {"crossfade-classic", "crossfade-staged", "crossfade-dynamic"}
  => \A i \in DOMAIN dom.slides :
       IF i = core.slideIndex THEN SlideActive(i) ELSE SlidePrevious(i)

\* the recognizer tracks no gesture: no start position is recorded
Idle(e) == e.touchStartX = <<>> /\ e.touchStartY = <<>>

\* C34: a pointer event calls a navigation operation or restarts the autoplay
\* timer only when it is the pointerup of a pointer that is no mouse, on a
\* root with swipe enabled, that ends a gesture tracked since a pointerdown
\* and not cancelled since; a pointerup while the recognizer is idle, a
\* pointercancel, an event of a mouse pointer and an event while swipe is
\* disabled emit nothing and leave index, paused flag and timer as they were,
\* and pointercancel leaves the recognizer idle.
C34_NavigationOnlyFromTracking ==
  /\ obs.handled
  /\ obs.lastOp
       \in {"pointerdown", "pointerup", "pointerup.mouse", "pointercancel"}
  => /\ obs.emitted # <<>> \/ ~CoreUntouched
          => /\ obs.lastOp = "pointerup"
             /\ obs.before.events.swipeEnabled
             /\ ~Idle(obs.before.events)
     /\ obs.lastOp = "pointercancel" => Idle(events)

\* the fragment has exactly the shape X-<n>: the identifier, a dash and a
\* numeral of digits only
ExactShape(hash) ==
  /\ Len(hash) >= 3 /\ hash[1] = "X" /\ hash[2] = "-"
  /\ \A i \in 3..Len(hash) : IsDigit(hash[i])

\* the number n of a fragment of the shape X-<n>
FragmentSlide(hash) ==
  digitsValue(SubSeq(hash, 3, Len(hash)), Len(hash) - 2)

\* C35: with deep linking enabled for the identifier X, the fragment of the
\* page at load and after a fragment change navigates the instance exactly
\* when it has the shape #X-<n> with 1 <= n <= total, and then the index is
\* n; any other fragment (of another identifier, of an identifier that
\* begins with X-, or with n out of range) leaves the index as it was (at
\* load: at the start index 1).
C35_FragmentNavigatesIffExact ==
  /\ obs.handled /\ obs.lastOp \in {"attach", "hashchange"}
  /\ orch.vvjsHashChangeHandler
  => LET hash == obs.fragment
         atLoad == obs.lastOp = "attach"
         addressed == /\ ExactShape(hash)
                      /\ FragmentSlide(hash) >= 1
                      /\ FragmentSlide(hash) <= core.totalSlides
         navigated == CountOf("vvjs:slideChanging")
                        > (IF atLoad THEN 1 ELSE 0)
     IN /\ navigated <=> addressed
        /\ addressed => core.slideIndex = FragmentSlide(hash)
        /\ ~addressed =>
             core.slideIndex
               = (IF atLoad THEN 1 ELSE obs.before.core.slideIndex)

\* in the sequence of notification types, every vvjs:transitionComplete and
\* every vvjs:slideChanged comes after a vvjs:slideChanging
ChangingFirst(types) ==
  \A i \in DOMAIN types :
    types[i] \in {"vvjs:transitionComplete", "vvjs:slideChanged"}
      => \E k \in 1..(i - 1) : types[k] = "vvjs:slideChanging"

\* C36: every observer of the root, whether it registered before the
\* modules of the instance or after them, gets the vvjs:slideChanging of a
\* navigation before the vvjs:transitionComplete and the vvjs:slideChanged
\* of that navigation, for every transition kind.
C36_ChangingDeliveredFirst ==
  Navigated =>
    /\ ChangingFirst([i \in DOMAIN obs.emitted |-> obs.emitted[i].type])
    /\ ChangingFirst(obs.late)

\* C37: checkElementVisibility() returns true exactly when the area of the
\* intersection of the rectangle of the root with the window, divided by
\* the area of the rectangle, is at least the threshold 0.5; a rectangle
\* that does not intersect the window (off screen in one axis or in both)
\* or whose area is zero is reported not visible.  The state machine takes
\* the result as its element-visible flag.
C37_VisibleIffRatioAtThreshold ==
  /\ obs.handled /\ obs.lastOp \in {"attach", "resize"}
  /\ Len(obs.input) = 4
  => LET top == obs.input[1]
         left == obs.input[2]
         height == obs.input[3]
         width == obs.input[4]
         overlapHeight ==
           mathMax(0, mathMin(top + height, Viewport.height)
                        - mathMax(top, 0))
         overlapWidth ==
           mathMax(0, mathMin(left + width, Viewport.width)
                        - mathMax(left, 0))
         area == height * width
     IN /\ obs.flag[1]
             = (area > 0 /\ 2 * overlapHeight * overlapWidth >= area)
        /\ core.isVisible = obs.flag[1]

\* C38: crossfade-staged and crossfade-dynamic share one completion
\* algorithm: for the configured duration the fallback delay that a job of a
\* staged root arms is the delay that a job of a dynamic root arms, and the
\* job completes once, by its transitionend or by its fallback timeout.
C38_StagedDynamicSameCompletion ==
  /\ transitions.activeTransition # 0
  /\ transitions.transitionType \in {"crossfade-staged", "crossfade-dynamic"}
  => LET delay == transitions.jobs[transitions.activeTransition].delay IN
     /\ delay = totalDuration(Cur, "staged") + CompletionBuffer
     /\ delay = totalDuration(Cur, "dynamic") + CompletionBuffer
     /\ browser.timeouts = {transitions.activeTransition}
     /\ browser.listeners = {transitions.activeTransition}

\* the vvjs:autoSlideStarted and vvjs:autoSlideStopped notifications of the
\* running handler, in their order
AutoplayNotes ==
  LET isAutoplay(n) ==
        n.type \in {"vvjs:autoSlideStarted", "vvjs:autoSlideStopped"}
  IN SelectSeq(obs.emitted, isAutoplay)

\* C39: vvjs:autoSlideStarted and vvjs:autoSlideStopped alternate, beginning
\* with vvjs:autoSlideStarted, and the autoplay timer is armed exactly when
\* the more recent of the two was vvjs:autoSlideStarted.  Stated handler by
\* handler: before attach no timer is armed; in every handler the first of
\* these notifications is stopped if the timer was armed when the handler
\* began and started if it was not, the following ones alternate, the timer
\* is armed when a started is dispatched and not armed when a stopped is,
\* and after the handler the timer is armed exactly when the last of them
\* was started (as it was before, when the handler dispatched none).
C39_StartedStoppedAlternate ==
  /\ orch.phase = "new" /\ ~obs.handled => ~Armed /\ browser.intervals = {}
  /\ obs.handled =>
       LET notes == AutoplayNotes
           wasArmed == obs.before.core.autoSlideIntervalId # 0
       IN /\ \A i \in DOMAIN notes :
               /\ (notes[i].type = "vvjs:autoSlideStopped")
                    = (wasArmed = (i % 2 = 1))
               /\ notes[i].armed = (notes[i].type = "vvjs:autoSlideStarted")
          /\ Armed = IF notes = <<>> THEN wasArmed
                     ELSE notes[Len(notes)].type = "vvjs:autoSlideStarted"
          /\ browser.intervals = {core.autoSlideIntervalId} \ {0}

\* the handler of the previous arrow has called startAutoSlide() on a
\* running timer, which dispatched vvjs:autoSlideStopped and then
\* vvjs:autoSlideStarted
C39_Witness ==
  /\ obs.handled /\ obs.lastOp = "prevSlide+start"
  /\ obs.before.core.autoSlideIntervalId # 0
  /\ Len(AutoplayNotes) = 2
  /\ AutoplayNotes[1].type = "vvjs:autoSlideStopped"
  /\ AutoplayNotes[2].type = "vvjs:autoSlideStarted"
  /\ Armed

\* C40: the timer of the progress bar is live only while the autoplay timer
\* is armed: after any handler that leaves autoplay stopped (paused, hovered,
\* out of view, page hidden, stopped at the last slide without looping) no
\* progress timer is live, and the handler in which the instance becomes
\* paused leaves none.
C40_ProgressOnlyWhileArmed ==
  /\ progress.progressIntervalId # 0 => Armed
  /\ obs.handled /\ core.isPaused /\ ~obs.before.core.isPaused
       => progress.progressIntervalId = 0

====
